---- MODULE Spec2Model ----
(***************************************************************************)
(* Model of the delivery service's transactional core: the order state     *)
(* machine (OrderService.UpdateOrderStatus), courier assignment            *)
(* (CourierService.AssignOrderToCourier, AutoAssignCourier), courier       *)
(* status reports (UpdateCourierStatus) and promo consumption inside       *)
(* order creation (OrderService.CreateOrder, PromoService).                *)
(*                                                                         *)
(* The database is PostgreSQL at READ COMMITTED: a transaction's writes    *)
(* are buffered in pend[p] and become visible atomically at Commit; a      *)
(* SELECT ... FOR UPDATE or an UPDATE of a row waits while another         *)
(* transaction holds the row lock and then sees the latest committed row;  *)
(* plain SELECTs read the committed tables without waiting.                *)
(***************************************************************************)
EXTENDS Integers, FiniteSets, Sequences, TLC

\* ------------------------------------------------------------------ bounds
NumProcs == 2          \* concurrent request handlers
MaxNow == 2            \* the clock runs 1..MaxNow
MaxUses == 2           \* largest max_uses a promo code is given
MaxOrders == 3         \* orders CreateOrder may insert in one behaviour
MaxLimit == 2          \* largest cfg.Requests the limiter is built with
MaxWindow == 2         \* largest cfg.WindowSeconds
MaxClock == 3          \* the limiter's clock runs 1..MaxClock
MaxCount == 3          \* largest value a rate-limit counter is taken to
MaxRequests == 2       \* requests the OrderHandler methods take in all

Procs == 1..NumProcs
OrderIds == {1}                    \* the order of the lifecycle specification
AssignOrderIds == {1, 2}           \* the orders of the assignment specification
MissingOrder == {0}                \* an id with no row
CourierIds == {"c1", "c2"}         \* couriers present
MissingCourier == "cX"             \* an id with no row
PromoCodes == {"SALE"}
MissingPromo == "NOPE"
RateKeys == {"ip1"}                \* client identifiers the limiter counts

\* GetCouriers' ORDER BY created_at DESC: the order in which rows come back
CourierList == <<"c2", "c1">>

\* ------------------------------------------------------------ program data
OrderStatusCreated == "created"
OrderStatusAccepted == "accepted"
OrderStatusPreparing == "preparing"
OrderStatusReady == "ready"
OrderStatusInDelivery == "in_delivery"
OrderStatusDelivered == "delivered"
OrderStatusCancelled == "cancelled"

OrderStatuses ==
  {OrderStatusCreated, OrderStatusAccepted, OrderStatusPreparing, OrderStatusReady,
   OrderStatusInDelivery, OrderStatusDelivered, OrderStatusCancelled}

ActiveStatuses ==
  {OrderStatusAccepted, OrderStatusPreparing, OrderStatusReady, OrderStatusInDelivery}

CourierStatusOffline == "offline"
CourierStatusAvailable == "available"
CourierStatusBusy == "busy"
CourierStatuses == {CourierStatusOffline, CourierStatusAvailable, CourierStatusBusy}

KindNotFound == "not_found"
KindValidation == "validation"
KindConflict == "conflict"
KindInternal == "internal"     \* an error that carries no apperror.Kind
KindOK == "ok"                 \* err == nil

NilCourier == "nil"            \* a nil *uuid.UUID / NULL courier_id
UuidNil == "00000000"          \* uuid.Nil, the all-zero identifier

\* writeServiceError: the HTTP status of a service error
writeServiceError(kind) ==
  CASE kind = KindNotFound -> 404
    [] kind = KindValidation -> 400
    [] kind = KindConflict -> 409
    [] OTHER -> 500

\* the table with an edge out of delivered
isValidOrderStatusTransition_NoTerminal(from, to) ==
  \/ from = to
  \/ from = OrderStatusCreated /\ to \in {OrderStatusAccepted, OrderStatusCancelled}
  \/ from = OrderStatusAccepted /\ to \in {OrderStatusPreparing, OrderStatusCancelled}
  \/ from = OrderStatusPreparing /\ to \in {OrderStatusReady, OrderStatusCancelled}
  \/ from = OrderStatusReady /\ to \in {OrderStatusInDelivery, OrderStatusCancelled}
  \/ from = OrderStatusInDelivery /\ to \in {OrderStatusDelivered, OrderStatusCancelled}
  \/ from = OrderStatusDelivered /\ to = OrderStatusCancelled

\* the table in which created may go anywhere
isValidOrderStatusTransition_Loose(from, to) ==
  \/ from = to
  \/ from = OrderStatusCreated /\ to \in OrderStatuses
  \/ from = OrderStatusAccepted /\ to \in {OrderStatusPreparing, OrderStatusCancelled}
  \/ from = OrderStatusPreparing /\ to \in {OrderStatusReady, OrderStatusCancelled}
  \/ from = OrderStatusReady /\ to \in {OrderStatusInDelivery, OrderStatusCancelled}
  \/ from = OrderStatusInDelivery /\ to \in {OrderStatusDelivered, OrderStatusCancelled}

isValidOrderStatusTransition(from, to) ==
  IF from = to THEN TRUE
  ELSE CASE from = OrderStatusCreated -> to \in {OrderStatusAccepted, OrderStatusCancelled}
         [] from = OrderStatusAccepted -> to \in {OrderStatusPreparing, OrderStatusCancelled}
         [] from = OrderStatusPreparing -> to \in {OrderStatusReady, OrderStatusCancelled}
         [] from = OrderStatusReady -> to \in {OrderStatusInDelivery, OrderStatusCancelled}
         [] from = OrderStatusInDelivery -> to \in {OrderStatusDelivered, OrderStatusCancelled}
         [] OTHER -> FALSE

\* ------------------------------------------------------------------- state
VARIABLES
  orders,        \* committed orders table: id -> row
  order_items,   \* committed order_items table: the orders that have item rows
  reviews,       \* committed reviews table: a set of rows
  couriers,      \* committed couriers table: id -> row
  promos,        \* committed promo_codes table: code -> row
  lockOrder,     \* row lock on an order id: the holding process or 0
  lockCourier,   \* row lock on a courier id
  lockPromo,     \* row lock on a promo code
  pc,            \* each handler's position
  call,          \* each handler's operation and arguments
  pend,          \* each open transaction's uncommitted writes
  result,        \* what each handler returned
  now,           \* time.Now()
  everDelivered, \* history: orders whose committed status has been delivered
  usedSeen,      \* history: the largest committed used_count seen of each promo code
  redis,         \* the key/value store: rate-limit key -> counter and expiry
  rl,            \* each handler's position and locals inside RateLimiter.Allow
  rlcfg,         \* the RateLimiter's fields: enabled, limit, window
  rlhist,        \* per key: the requests counted and allowed in each counter's life
  mwLimiter,     \* whether RateLimitMiddleware was given a limiter (not nil)
  mw,            \* each handler's request inside RateLimitMiddleware
  rlclient,      \* history: each Allow call's client identifier, the calls made per client
  commitLog,     \* history: the status changes OrderHandler requests committed, in order
  http,          \* each handler's request inside an OrderHandler method
  published,     \* the events the producer has delivered, in order
  cache,         \* the key/value store: order id -> the cached order, if any
  app,           \* func main: its position and the components it runs
  kpi,           \* each handler's call of AnalyticsService.GetKPIs
  stats,         \* the key/value store: analytics cache key -> value and expiry
  kpiLog,        \* history: how many GetKPIs calls returned, and the recent results
  geo,           \* each handler's call of GeocodingService.Geocode
  geocache,      \* the key/value store: geocode key -> coordinates and expiry
  geocfg,        \* the GeocodingService's configuration: Provider, YandexAPIKey
  list           \* each handler's request inside OrderHandler.GetOrders

vars ==
  <<orders, order_items, reviews, couriers, promos, lockOrder, lockCourier, lockPromo,
    pc, call, pend, result, now, everDelivered, usedSeen, redis, rl, rlcfg, rlhist,
    mwLimiter, mw, rlclient, commitLog, http, published, cache, app, kpi, stats, kpiLog,
    geo, geocache, geocfg, list>>

tables == <<orders, order_items, reviews, couriers, promos>>
history == <<everDelivered, usedSeen, commitLog>>
middleware == <<mwLimiter, mw, rlclient>>
handlers == <<http, published, cache>>
analytics == <<kpi, stats, kpiLog>>
geocoding == <<geo, geocache, geocfg>>
aux == <<analytics, geocoding, list>>
limiter == <<redis, rl, rlcfg, rlhist, middleware, handlers, app, aux>>
locks == <<lockOrder, lockCourier, lockPromo>>

AllOrderIds == (0..MaxOrders) \cup {1, 2}

NoCall ==
  [op |-> "none", order |-> 0, courier |-> NilCourier, status |-> "",
   cid |-> NilCourier, lat |-> <<>>, lon |-> <<>>, promo |-> "",
   maxUses |-> 0, active |-> FALSE, expiresAt |-> 0, rating |-> 0]

\* what is kept of a call once it has returned: the operation and its targets
Brief(c) ==
  [NoCall EXCEPT !.op = c.op, !.order = c.order, !.courier = c.courier, !.promo = c.promo]

NoPend == [order |-> <<>>, items |-> <<>>, review |-> <<>>, courier |-> <<>>, promo |-> <<>>]

\* a rate-limit key that does not exist (count 0); expiry 0 is no TTL
NoKey == [count |-> 0, expiry |-> 0]

\* a handler outside RateLimiter.Allow
NoAllow ==
  [pc |-> "idle", key |-> "", at |-> 0, count |-> 0, allowed |-> FALSE,
   remaining |-> 0, resetAt |-> 0, err |-> FALSE, nth |-> 0, life |-> 0,
   fresh |-> FALSE, used |-> 0, hasReset |-> FALSE]

\* what NewRateLimiter returns for a nil client or configuration, a disabled
\* one, or one whose Requests or WindowSeconds is not positive
DisabledLimiter == [enabled |-> FALSE, limit |-> 0, window |-> 0]

\* no request counted yet for a key
NoHist == [hits |-> 0, granted |-> <<>>, wstart |-> 0]

\* a handler with no request in RateLimitMiddleware; status 0 and no
\* headers: nothing written yet
NoRequest == [pc |-> "idle", status |-> 0, next |-> 0, headers |-> <<>>]

\* client identifiers as ExtractClientIP returns them, character by
\* character: the host of RemoteAddr "[::1]:4242", the header X-Real-IP: __1
\* (taken as it is sent), the host of RemoteAddr "10.0.0.7:4242" (shortened)
ClientIds == {<<":", ":", "1">>, <<"_", "_", "1">>, <<"7">>}

\* no Allow call made for any client identifier
NoClients == [who |-> [p \in Procs |-> <<>>], asked |-> [a \in ClientIds |-> 0]]

\* a handler with no request in an OrderHandler method; status 0: nothing
\* written yet; n counts the requests it has taken; acked is, for the
\* history of a GET, the status an update had been answered with before it
NoHttp ==
  [pc |-> "idle", op |-> "", order |-> 0, oldStatus |-> "", status |-> "",
   cid |-> NilCourier, autoAssign |-> FALSE, code |-> 0, pubErr |-> FALSE,
   cacheErr |-> FALSE, n |-> 0, acked |-> ""]

NoResult == [kind |-> "none", msg |-> "", courierStatus |-> ""]

\* the components main stops on shutdown, in the order of its statements
Components == <<"consumer", "server", "producer", "redis", "db">>

\* main after buildApplication, blocked on <-quit: everything running, no
\* request in flight, no Stop or Close called yet
AppServing ==
  [pc |-> "serving",
   state |-> [i \in DOMAIN Components |-> "up"],
   errs |-> {}, active |-> 0, forced |-> FALSE, used |-> {}]

OrderRow(status, courier, deliveredAt, promo) ==
  [status |-> status, courier_id |-> courier, delivered_at |-> deliveredAt,
   promo_code |-> promo, rating |-> 0]

\* a row CreateCourier inserts: offline, no coordinates, rating 0, no reviews
NewCourierRow ==
  [status |-> CourierStatusOffline, current_lat |-> <<>>, current_lon |-> <<>>,
   rating |-> 0, total_reviews |-> 0]

\* ------------------------------------------------------- database helpers
Release(lock, p) == [x \in DOMAIN lock |-> IF lock[x] = p THEN 0 ELSE lock[x]]

ApplyWrite(tbl, w) ==
  IF w = <<>> THEN tbl
  ELSE [x \in DOMAIN tbl \cup {w[1]} |-> IF x = w[1] THEN w[2] ELSE tbl[x]]

InTx(p) ==
  pc[p] \in {"a_lock", "a_order", "a_courier", "a_commit", "u_commit", "c_promo",
            "c_insert", "c_items", "c_commit", "r_lock", "r_insert", "r_trigger",
            "r_update", "r_commit"}

\* reviews.courier_id REFERENCES couriers(id): the foreign-key check of an
\* inserted review row locks the courier row FOR KEY SHARE until the
\* transaction ends. A transaction other than p holds that lock on courier c
\* (a holder that went on to lock the row FOR UPDATE is in lockCourier)
KeyShared(c, p) ==
  \E q \in Procs \ {p} : pc[q] = "r_trigger" /\ call[q].courier = c

\* the handler running call c returns (kind, msg)
Done(p, c, kind, msg, courierStatus) ==
  /\ pc' = [pc EXCEPT ![p] = "done"]
  /\ call' = [call EXCEPT ![p] = Brief(c)]
  /\ result' = [result EXCEPT ![p] =
                  [kind |-> kind, msg |-> msg, courierStatus |-> courierStatus]]

\* the handler returns an error: its transaction (if any) is rolled back by
\* the deferred tx.Rollback(), which drops its writes and releases its locks
Fail(p, c, kind, msg) ==
  /\ Done(p, c, kind, msg, "")
  /\ pend' = [pend EXCEPT ![p] = NoPend]
  /\ lockOrder' = Release(lockOrder, p)
  /\ lockCourier' = Release(lockCourier, p)
  /\ lockPromo' = Release(lockPromo, p)
  /\ UNCHANGED <<tables, history, limiter>>

\* the handler moves on to position next, its call now c
Goto(p, c, next) ==
  /\ pc' = [pc EXCEPT ![p] = next]
  /\ call' = [call EXCEPT ![p] = c]
  /\ UNCHANGED result

\* tx.Commit of any of the transactions: the buffered writes become visible
\* together and the row locks are released
CommitTables(p) ==
  /\ orders' = ApplyWrite(orders, pend[p].order)
  /\ order_items' = order_items \cup {pend[p].items[i] : i \in DOMAIN pend[p].items}
  /\ reviews' = reviews \cup {pend[p].review[i] : i \in DOMAIN pend[p].review}
  /\ couriers' = ApplyWrite(couriers, pend[p].courier)
  /\ promos' = ApplyWrite(promos, pend[p].promo)
  /\ usedSeen' =
       IF pend[p].promo # <<>> /\ pend[p].promo[2].used_count > usedSeen[pend[p].promo[1]]
       THEN [usedSeen EXCEPT ![pend[p].promo[1]] = pend[p].promo[2].used_count]
       ELSE usedSeen
  /\ UNCHANGED limiter
  /\ commitLog' =
       IF http[p].pc = "svc" /\ call[p].op = "order_status" /\ pend[p].order # <<>>
       THEN Append(commitLog, [order |-> pend[p].order[1],
                               old |-> orders[pend[p].order[1]].status,
                               new |-> pend[p].order[2].status,
                               req |-> <<p, http[p].n>>])
       ELSE commitLog
  /\ everDelivered' =
       IF pend[p].order # <<>> /\ pend[p].order[2].status = OrderStatusDelivered
       THEN everDelivered \cup {pend[p].order[1]}
       ELSE everDelivered
  /\ pend' = [pend EXCEPT ![p] = NoPend]
  /\ lockOrder' = Release(lockOrder, p)
  /\ lockCourier' = Release(lockCourier, p)
  /\ lockPromo' = Release(lockPromo, p)

\* ------------------------------------------------------------ Init states
NoLocks ==
  /\ lockOrder = [o \in AllOrderIds |-> 0]
  /\ lockCourier = [c \in CourierIds |-> 0]
  /\ lockPromo = [k \in PromoCodes |-> 0]

\* the key/value store empty; no Allow call in progress
\* a handler outside GetKPIs; seen is what the call found stored before it
NoKpi ==
  [pc |-> "idle", filter |-> <<>>, key |-> <<>>, at |-> 0, readErr |-> FALSE,
   earlier |-> {}, queries |-> 0, summary |-> <<>>, periods |-> <<>>,
   topItems |-> <<>>, res |-> <<>>, err |-> FALSE, wrote |-> FALSE]

\* a handler outside Geocode; n counts the calls it has made
NoGeo ==
  [pc |-> "idle", address |-> "", key |-> "", readErr |-> FALSE, outcome |-> "",
   lat |-> 0, lon |-> 0, err |-> FALSE, stored |-> FALSE, n |-> 0]

\* a handler with no request in OrderHandler.GetOrders; code 0: nothing
\* written yet
NoList ==
  [pc |-> "idle", limitStr |-> "", offsetStr |-> "", status |-> "", courier |-> NilCourier,
   limit |-> 0, offset |-> 0, code |-> 0, body |-> <<>>]

\* no analytics, geocoding or listing call yet and nothing cached
AuxIdle ==
  /\ list = [p \in Procs |-> NoList]
  /\ geo = [p \in Procs |-> NoGeo]
  /\ geocache = << >>
  /\ kpi = [p \in Procs |-> NoKpi]
  /\ stats = << >>
  /\ kpiLog = [n |-> 0, calls |-> {}]

LimiterIdle ==
  /\ redis = [k \in RateKeys |-> NoKey]
  /\ rl = [p \in Procs |-> NoAllow]
  /\ rlcfg = DisabledLimiter
  /\ rlhist = [k \in RateKeys |-> NoHist]
  /\ mwLimiter = TRUE
  /\ mw = [p \in Procs |-> NoRequest]
  /\ rlclient = NoClients

ProcsIdle ==
  /\ AuxIdle
  /\ app = AppServing
  /\ http = [p \in Procs |-> NoHttp]
  /\ published = <<>>
  /\ cache = [o \in AllOrderIds |-> <<>>]
  /\ commitLog = <<>>
  /\ pc = [p \in Procs |-> "idle"]
  /\ call = [p \in Procs |-> NoCall]
  /\ pend = [p \in Procs |-> NoPend]
  /\ result = [p \in Procs |-> NoResult]

\* the same with the geocoder configured to work offline
IdleProcs ==
  /\ ProcsIdle
  /\ geocfg = [Provider |-> "offline", YandexAPIKey |-> ""]

\* the service with its data loaded: orders just created (CreateOrder inserts
\* status created, no courier, no delivered_at), a courier just created
Init ==
  /\ orders = [o \in OrderIds |-> OrderRow(OrderStatusCreated, NilCourier, 0, "")]
  /\ couriers = [c \in {"c1"} |-> NewCourierRow]
  /\ promos = << >>
  /\ order_items = DOMAIN orders
  /\ reviews = {}
  /\ NoLocks
  /\ IdleProcs
  /\ now = 1
  /\ everDelivered = {}
  /\ usedSeen = [k \in PromoCodes |-> 0]
  /\ LimiterIdle

\* ------------------------------------------------ AssignOrderToCourier
\* the message of an error of AssignOrderToCourier as its caller receives it:
\* AutoAssignCourier returns fmt.Errorf("failed to assign order to courier: %w", err),
\* whose kind is still the one errors.As finds in the chain
AssignError(p, msg) ==
  IF call[p].op = "auto" THEN "failed to assign order to courier: " \o msg ELSE msg

\* s.db.BeginTx
AssignOrderToCourier(p, o, c) ==
  /\ pc[p] = "idle"
  /\ Goto(p, [NoCall EXCEPT !.op = "assign", !.order = o, !.courier = c], "a_lock")
  /\ UNCHANGED <<tables, locks, pend, now, history, limiter>>

\* the courier check whose refusal sends an automatic assignment back to
\* choose again
Assign_SelectCourier_Retry(p) ==
  /\ pc[p] = "a_lock"
  /\ LET c == call[p].courier IN
       IF c \notin DOMAIN couriers
       THEN Fail(p, call[p], KindNotFound, AssignError(p, "courier not found"))
       ELSE /\ lockCourier[c] = 0
            /\ IF couriers[c].status # CourierStatusAvailable
               THEN IF call[p].op = "auto"
                    THEN /\ Goto(p, call[p], "aa_list")
                         /\ UNCHANGED <<tables, locks, pend, history, limiter>>
                    ELSE Fail(p, call[p], KindConflict, AssignError(p, "courier is not available"))
               ELSE /\ lockCourier' = [lockCourier EXCEPT ![c] = p]
                    /\ Goto(p, call[p], "a_order")
                    /\ UNCHANGED <<tables, lockOrder, lockPromo, pend, history, limiter>>
  /\ UNCHANGED now

\* SELECT status FROM couriers WHERE id = $1 FOR UPDATE, and the status check
Assign_SelectCourier(p) ==
  /\ pc[p] = "a_lock"
  /\ LET c == call[p].courier IN
       IF c \notin DOMAIN couriers
       THEN Fail(p, call[p], KindNotFound, AssignError(p, "courier not found"))
       ELSE /\ lockCourier[c] = 0
            /\ ~KeyShared(c, p)
            /\ IF couriers[c].status # CourierStatusAvailable
               THEN Fail(p, call[p], KindConflict, AssignError(p, "courier is not available"))
               ELSE /\ lockCourier' = [lockCourier EXCEPT ![c] = p]
                    /\ Goto(p, call[p], "a_order")
                    /\ UNCHANGED <<tables, lockOrder, lockPromo, pend, history, limiter>>
  /\ UNCHANGED now

\* the same UPDATE run on s.db instead of tx: visible as soon as it is made
Assign_UpdateOrder_Autocommit(p) ==
  /\ pc[p] = "a_order"
  /\ LET o == call[p].order IN
       IF o \notin DOMAIN orders \/ orders[o].status # OrderStatusCreated
       THEN Fail(p, call[p], KindConflict, AssignError(p, "order not found or already assigned"))
       ELSE /\ lockOrder[o] = 0
            /\ orders' = [orders EXCEPT ![o].courier_id = call[p].courier,
                                        ![o].status = OrderStatusAccepted]
            /\ Goto(p, call[p], "a_courier")
            /\ UNCHANGED <<order_items, reviews, couriers, promos, locks, pend, history, limiter>>
  /\ UNCHANGED now

\* the order UPDATE that tells a missing order from an assigned one
Assign_UpdateOrder_NotFound(p) ==
  /\ pc[p] = "a_order"
  /\ LET o == call[p].order IN
       IF o \notin DOMAIN orders
       THEN Fail(p, call[p], KindNotFound, AssignError(p, "order not found"))
       ELSE IF orders[o].status # OrderStatusCreated
       THEN Fail(p, call[p], KindConflict, AssignError(p, "order already assigned"))
       ELSE /\ lockOrder[o] = 0
            /\ lockOrder' = [lockOrder EXCEPT ![o] = p]
            /\ pend' = [pend EXCEPT ![p].order =
                 <<o, [orders[o] EXCEPT !.courier_id = call[p].courier,
                                        !.status = OrderStatusAccepted]>>]
            /\ Goto(p, call[p], "a_courier")
            /\ UNCHANGED <<tables, lockCourier, lockPromo, history, limiter>>
  /\ UNCHANGED now

\* UPDATE orders SET courier_id, status = accepted WHERE id = $4 AND status = created:
\* a row that does not match is not waited for; a matching row is locked
Assign_UpdateOrder(p) ==
  /\ pc[p] = "a_order"
  /\ LET o == call[p].order IN
       IF o \notin DOMAIN orders \/ orders[o].status # OrderStatusCreated
       THEN Fail(p, call[p], KindConflict, AssignError(p, "order not found or already assigned"))
       ELSE /\ lockOrder[o] = 0
            /\ lockOrder' = [lockOrder EXCEPT ![o] = p]
            /\ pend' = [pend EXCEPT ![p].order =
                 <<o, [orders[o] EXCEPT !.courier_id = call[p].courier,
                                        !.status = OrderStatusAccepted]>>]
            /\ Goto(p, call[p], "a_courier")
            /\ UNCHANGED <<tables, lockCourier, lockPromo, history, limiter>>
  /\ UNCHANGED now

\* the courier UPDATE left out: the transaction goes on to commit
Assign_UpdateCourier_Skipped(p) ==
  /\ pc[p] = "a_courier"
  /\ Goto(p, call[p], "a_commit")
  /\ UNCHANGED <<tables, locks, pend, now, history, limiter>>

\* UPDATE couriers SET status = busy WHERE id = $3 AND status = available
Assign_UpdateCourier(p) ==
  /\ pc[p] = "a_courier"
  /\ LET c == call[p].courier IN
       IF couriers[c].status # CourierStatusAvailable
       THEN Fail(p, call[p], KindConflict, AssignError(p, "courier is not available"))
       ELSE /\ pend' = [pend EXCEPT ![p].courier =
                 <<c, [couriers[c] EXCEPT !.status = CourierStatusBusy]>>]
            /\ Goto(p, call[p], "a_commit")
            /\ UNCHANGED <<tables, locks, history, limiter>>
  /\ UNCHANGED now

\* tx.Commit; AutoAssignCourier goes on to reload the courier
Assign_Commit(p) ==
  /\ pc[p] = "a_commit"
  /\ CommitTables(p)
  /\ IF call[p].op = "auto"
     THEN Goto(p, call[p], "aa_get")
     ELSE Done(p, call[p], KindOK, "", "")
  /\ UNCHANGED now

\* the message of the error a failing statement is wrapped in
TxFailMsg(pos) ==
  CASE pos = "c_promo" -> "failed to get promo code"
    [] pos = "c_insert" -> "failed to create order"
    [] pos = "c_items" -> "failed to create order item"
    [] pos = "c_commit" -> "failed to commit transaction"
    [] pos = "r_lock" -> "failed to fetch order for review"
    [] pos = "r_insert" -> "failed to insert review"
    [] pos = "r_trigger" -> "failed to insert review"
    [] pos = "r_update" -> "failed to update order with review"
    [] pos = "r_commit" -> "failed to commit review transaction"
    [] OTHER -> "database error"

\* a database error or the context's cancellation inside an open
\* transaction: the handler returns an untyped error and rolls back
TxFail(p) ==
  /\ InTx(p)
  /\ Fail(p, call[p], KindInternal, AssignError(p, TxFailMsg(pc[p])))
  /\ UNCHANGED now

\* the handler has answered; the worker takes the next request
Return(p) ==
  /\ pc[p] = "done"
  /\ pc' = [pc EXCEPT ![p] = "idle"]
  /\ call' = [call EXCEPT ![p] = NoCall]
  /\ result' = [result EXCEPT ![p] = NoResult]
  /\ UNCHANGED <<tables, locks, pend, now, history, limiter>>

\* time passes
Tick ==
  /\ now < MaxNow
  /\ now' = now + 1
  /\ UNCHANGED <<tables, locks, pc, call, pend, result, history, limiter>>

\* ------------------------------------------------------ AutoAssignCourier
Abs(x) == IF x < 0 THEN 0 - x ELSE x

\* distance in km between two points of a small grid (stands for the haversine
\* distance, of which only the magnitude enters the score)
calculateDistance(lat1, lon1, lat2, lon2) == Abs(lat1 - lat2) + Abs(lon1 - lon2)

\* SELECT COUNT(*) FROM orders WHERE courier_id = $1 AND status IN (...)
getActiveCourierOrders(c) ==
  Cardinality({o \in DOMAIN orders :
                 orders[o].courier_id = c /\ orders[o].status \in ActiveStatuses})

\* TotalScore in hundred-thousandths (weights 40/30/30 over scores in
\* thousandths); ratings are kept in hundredths
calculateCourierScore(c, targetLat, targetLon) ==
  LET distance == calculateDistance(couriers[c].current_lat[1], couriers[c].current_lon[1],
                                    targetLat, targetLon)
      DistanceScore == IF distance > 50 THEN 0 ELSE 1000 - 20 * distance
      RatingScore == 2 * couriers[c].rating
      activeOrders == getActiveCourierOrders(c)
      WorkloadScore == IF activeOrders >= 5 THEN 0 ELSE 1000 - 200 * activeOrders
  IN DistanceScore * 40 + RatingScore * 30 + WorkloadScore * 30

\* GetAvailableCouriers: the rows with status available, in CourierList order
GetAvailableCouriers ==
  SelectSeq(CourierList,
            LAMBDA c : c \in DOMAIN couriers /\ couriers[c].status = CourierStatusAvailable)

\* the filter on CurrentLat != nil && CurrentLon != nil
couriersWithLocation(avail) ==
  SelectSeq(avail, LAMBDA c : couriers[c].current_lat # <<>> /\ couriers[c].current_lon # <<>>)

\* the loop replacing the held score by one that is greater or equal
RECURSIVE bestFrom_OrEqual(_, _, _, _, _)
bestFrom_OrEqual(cands, targetLat, targetLon, best, i) ==
  IF i > Len(cands)
  THEN best
  ELSE bestFrom_OrEqual(cands, targetLat, targetLon,
                IF calculateCourierScore(cands[i], targetLat, targetLon) >=
                     calculateCourierScore(cands[best], targetLat, targetLon)
                THEN i ELSE best,
                i + 1)

\* for _, score := range scores[1:] { if score.TotalScore > bestScore.TotalScore
\* { bestScore = score } }: best is the index held when the loop reaches i
RECURSIVE bestFrom(_, _, _, _, _)
bestFrom(cands, targetLat, targetLon, best, i) ==
  IF i > Len(cands)
  THEN best
  ELSE bestFrom(cands, targetLat, targetLon,
                IF calculateCourierScore(cands[i], targetLat, targetLon) >
                     calculateCourierScore(cands[best], targetLat, targetLon)
                THEN i ELSE best,
                i + 1)

\* bestScore := scores[0], then the loop over scores[1:]
bestScore(cands, targetLat, targetLon) ==
  cands[bestFrom(cands, targetLat, targetLon, 1, 2)]

\* the checks on the order without the one on CourierID
AutoAssignCourier_NoCourierCheck(p, o, lat) ==
  /\ pc[p] = "idle"
  /\ LET c == [NoCall EXCEPT !.op = "auto", !.order = o, !.lat = <<lat>>, !.lon = <<0>>] IN
       IF o \notin DOMAIN orders
       THEN Fail(p, c, KindNotFound, "failed to get order: order not found")
       ELSE IF orders[o].status # OrderStatusCreated
       THEN Fail(p, c, KindInternal, "order is not in 'created' status")
       ELSE /\ Goto(p, c, "aa_list")
            /\ UNCHANGED <<tables, locks, pend, history, limiter>>
  /\ UNCHANGED now

\* s.orderService.GetOrder and the checks on the order
AutoAssignCourier(p, o, lat) ==
  /\ pc[p] = "idle"
  /\ LET c == [NoCall EXCEPT !.op = "auto", !.order = o, !.lat = <<lat>>, !.lon = <<0>>] IN
       IF o \notin DOMAIN orders
       THEN Fail(p, c, KindNotFound, "failed to get order: order not found")
       ELSE IF orders[o].status # OrderStatusCreated
       THEN Fail(p, c, KindInternal, "order is not in 'created' status")
       ELSE IF orders[o].courier_id # NilCourier
       THEN Fail(p, c, KindInternal, "order already has assigned courier")
       ELSE /\ Goto(p, c, "aa_list")
            /\ UNCHANGED <<tables, locks, pend, history, limiter>>
  /\ UNCHANGED now

\* GetAvailableCouriers, the location filter, the scores and the choice; then
\* AssignOrderToCourier(orderID, bestScore.CourierID) begins its transaction
AutoAssign_Choose(p) ==
  /\ pc[p] = "aa_list"
  /\ LET avail == GetAvailableCouriers
         cands == couriersWithLocation(avail)
     IN IF Len(avail) = 0
        THEN Fail(p, call[p], KindInternal, "no available couriers found")
        ELSE IF Len(cands) = 0
        THEN Fail(p, call[p], KindInternal, "no couriers with known location available")
        ELSE /\ Goto(p, [call[p] EXCEPT !.courier =
                           bestScore(cands, call[p].lat[1], call[p].lon[1])], "a_lock")
             /\ UNCHANGED <<tables, locks, pend, history, limiter>>
  /\ UNCHANGED now

\* return s.courierService.GetCourier(bestScore.CourierID)
AutoAssign_GetCourier(p) ==
  /\ pc[p] = "aa_get"
  /\ Done(p, call[p], KindOK, "", couriers[call[p].courier].status)
  /\ UNCHANGED <<tables, locks, pend, now, history, limiter>>

\* ---------------------------------------------------- UpdateCourierStatus
\* one UPDATE couriers SET status, current_lat, current_lon WHERE id = $6
UpdateCourierStatus(p, c, st, lat, lon) ==
  /\ pc[p] = "idle"
  /\ LET cl == [NoCall EXCEPT !.op = "courier_status", !.courier = c] IN
       IF c \notin DOMAIN couriers
       THEN /\ Done(p, cl, KindNotFound, "courier not found", "")
            /\ UNCHANGED couriers
       ELSE /\ lockCourier[c] = 0
            /\ couriers' = [couriers EXCEPT ![c].status = st, ![c].current_lat = lat,
                                            ![c].current_lon = lon]
            /\ Done(p, cl, KindOK, "", "")
  /\ UNCHANGED <<orders, order_items, reviews, promos, locks, pend, now, history, limiter>>

\* ------------------------------------------------------ UpdateOrderStatus
\* a delivered_at that is stamped on every write of delivered
deliveredAt_AlwaysNow(currentStatus, currentDeliveredAt, reqStatus, t) ==
  IF reqStatus = OrderStatusDelivered THEN t ELSE 0

\* the delivered_at the UPDATE writes (0 is NULL)
deliveredAt(currentStatus, currentDeliveredAt, reqStatus, t) ==
  IF reqStatus = OrderStatusDelivered
  THEN IF currentStatus = OrderStatusDelivered /\ currentDeliveredAt # 0
       THEN currentDeliveredAt
       ELSE t
  ELSE 0

\* the checks without the transition check
UpdateOrderStatusKind_NoCheck(row, st, cid) ==
  IF cid = UuidNil THEN KindValidation ELSE KindOK

\* the error kind of the checks made on the locked row, ok when they pass
UpdateOrderStatusKind(row, st, cid) ==
  IF ~isValidOrderStatusTransition(row.status, st) THEN KindConflict
  ELSE IF cid = UuidNil THEN KindValidation
  ELSE KindOK

\* the UPDATE writing the request's courier_id even when it is absent
UpdatedOrderRow_ClearsCourier(row, st, cid, t) ==
  [row EXCEPT !.status = st,
              !.courier_id = cid,
              !.delivered_at = deliveredAt(row.status, row.delivered_at, st, t)]

\* the row the UPDATE orders SET status, courier_id, delivered_at writes
UpdatedOrderRow(row, st, cid, t) ==
  [row EXCEPT !.status = st,
              !.courier_id = IF cid # NilCourier THEN cid ELSE row.courier_id,
              !.delivered_at = deliveredAt(row.status, row.delivered_at, st, t)]

\* BeginTx, SELECT ... FOR UPDATE, the checks and the UPDATE
UpdateOrderStatus(p, o, st, cid) ==
  /\ pc[p] = "idle"
  /\ LET c == [NoCall EXCEPT !.op = "order_status", !.order = o, !.status = st, !.cid = cid]
     IN IF st = ""
        THEN Fail(p, c, KindValidation, "status is required")
        ELSE IF o \notin DOMAIN orders
        THEN Fail(p, c, KindNotFound, "order not found")
        ELSE /\ lockOrder[o] = 0
             /\ LET kind == UpdateOrderStatusKind(orders[o], st, cid) IN
                  IF kind # KindOK
                  THEN Fail(p, c, kind, IF kind = KindConflict
                                        THEN "invalid order status transition"
                                        ELSE "courier_id must be a valid UUID")
                  ELSE /\ lockOrder' = [lockOrder EXCEPT ![o] = p]
                       /\ pend' = [pend EXCEPT ![p].order =
                                     <<o, UpdatedOrderRow(orders[o], st, cid, now)>>]
                       /\ Goto(p, Brief(c), "u_commit")
                       /\ UNCHANGED <<tables, lockCourier, lockPromo, history, limiter>>
  /\ UNCHANGED now

\* tx.Commit
UpdateOrderStatus_Commit(p) ==
  /\ pc[p] = "u_commit"
  /\ CommitTables(p)
  /\ Done(p, call[p], KindOK, "", "")
  /\ UNCHANGED now

\* ------------------------------------------- CreateOrder, PromoService
PromoRow(maxUses, usedCount, active, expiresAt) ==
  [max_uses |-> maxUses, used_count |-> usedCount, active |-> active,
   expires_at |-> expiresAt]

\* uuid.New(): an id no committed or pending order row carries
NewOrderIds ==
  {i \in 1..MaxOrders :
     /\ i \notin DOMAIN orders
     /\ \A q \in Procs : pend[q].order = <<>> \/ pend[q].order[1] # i}

\* the handlers inside CreateOrder
Creating == {q \in Procs : pc[q] \in {"c_promo", "c_insert", "c_items", "c_commit"}}

\* the rejection ApplyPromoWithTx makes of a promo row ("" when it accepts it)
PromoRejection(row, t) ==
  IF ~row.active THEN "promo code is inactive"
  ELSE IF row.expires_at # 0 /\ row.expires_at < t THEN "promo code expired"
  ELSE IF row.max_uses > 0 /\ row.used_count >= row.max_uses
  THEN "promo code usage limit reached"
  ELSE ""

\* the coordinates check and BeginTx; a request without promo code goes
\* straight to the INSERT
CreateOrder(p, hasCoords, code) ==
  /\ pc[p] = "idle"
  /\ Cardinality(DOMAIN orders) + Cardinality(Creating) < MaxOrders
  /\ LET c == [NoCall EXCEPT !.op = "create", !.promo = code] IN
       IF ~hasCoords
       THEN Done(p, c, KindValidation,
                 "pickup and delivery coordinates are required for pricing", "")
       ELSE Goto(p, c, IF code = "" THEN "c_insert" ELSE "c_promo")
  /\ UNCHANGED <<tables, locks, pend, now, history, limiter>>

\* ApplyPromoWithTx with a plain SELECT: the row is read without its lock
CreateOrder_ApplyPromo_NoLock(p) ==
  /\ pc[p] = "c_promo"
  /\ LET k == call[p].promo IN
       IF k \notin DOMAIN promos
       THEN Fail(p, call[p], KindNotFound, "promo code not found")
       ELSE IF PromoRejection(promos[k], now) # ""
            THEN Fail(p, call[p], KindConflict, PromoRejection(promos[k], now))
            ELSE /\ pend' = [pend EXCEPT ![p].promo =
                      <<k, [promos[k] EXCEPT !.used_count = @ + 1]>>]
                 /\ Goto(p, call[p], "c_insert")
                 /\ UNCHANGED <<tables, locks, history, limiter>>
  /\ UNCHANGED now

\* ApplyPromoWithTx: SELECT ... FROM promo_codes WHERE code = $1 FOR UPDATE, the
\* checks, and UPDATE promo_codes SET used_count = used_count + 1
CreateOrder_ApplyPromo(p) ==
  /\ pc[p] = "c_promo"
  /\ LET k == call[p].promo IN
       IF k \notin DOMAIN promos
       THEN Fail(p, call[p], KindNotFound, "promo code not found")
       ELSE /\ lockPromo[k] = 0
            /\ IF PromoRejection(promos[k], now) # ""
               THEN Fail(p, call[p], KindConflict, PromoRejection(promos[k], now))
               ELSE /\ lockPromo' = [lockPromo EXCEPT ![k] = p]
                    /\ pend' = [pend EXCEPT ![p].promo =
                         <<k, [promos[k] EXCEPT !.used_count = @ + 1]>>]
                    /\ Goto(p, call[p], "c_insert")
                    /\ UNCHANGED <<tables, lockOrder, lockCourier, history, limiter>>
  /\ UNCHANGED now

\* the INSERT run on s.db instead of tx: the row is there at once
CreateOrder_Insert_Autocommit(p) ==
  /\ pc[p] = "c_insert"
  /\ LET id == CHOOSE i \in NewOrderIds : \A j \in NewOrderIds : i <= j IN
       orders' = ApplyWrite(orders,
                   <<id, OrderRow(OrderStatusCreated, NilCourier, 0, call[p].promo)>>)
  /\ Goto(p, call[p], "c_commit")
  /\ UNCHANGED <<order_items, reviews, couriers, promos, locks, pend, now, history, limiter>>

\* INSERT INTO orders: status created, no courier, the promo code kept
CreateOrder_Insert(p) ==
  /\ pc[p] = "c_insert"
  /\ LET id == CHOOSE i \in NewOrderIds : \A j \in NewOrderIds : i <= j IN
       pend' = [pend EXCEPT ![p].order =
                  <<id, OrderRow(OrderStatusCreated, NilCourier, 0, call[p].promo)>>]
  /\ Goto(p, call[p], "c_items")
  /\ UNCHANGED <<tables, locks, now, history, limiter>>

\* INSERT INTO order_items, for each item of the request
CreateOrder_InsertItems(p) ==
  /\ pc[p] = "c_items"
  /\ pend' = [pend EXCEPT ![p].items = <<pend[p].order[1]>>]
  /\ Goto(p, call[p], "c_commit")
  /\ UNCHANGED <<tables, locks, now, history, limiter>>

\* tx.Commit
CreateOrder_Commit(p) ==
  /\ pc[p] = "c_commit"
  /\ CommitTables(p)
  /\ Done(p, [call[p] EXCEPT !.order = pend[p].order[1]], KindOK, "", "")
  /\ UNCHANGED now

\* ------------------------------------------------------------ CreateReview
\* the rating check and BeginTx
CreateReview(p, o, rating) ==
  /\ pc[p] = "idle"
  /\ LET c == [NoCall EXCEPT !.op = "review", !.order = o, !.rating = rating] IN
       IF rating < 1 \/ rating > 5
       THEN Done(p, c, KindValidation, "rating must be between 1 and 5", "")
       ELSE Goto(p, c, "r_lock")
  /\ UNCHANGED <<tables, locks, pend, now, history, limiter>>

\* the checks without the one on the status
ReviewRejection_NoStatus(row) ==
  IF row.courier_id = NilCourier THEN "order has no assigned courier"
  ELSE IF row.rating # 0 THEN "review already exists for this order"
  ELSE ""

\* the rejection CreateReview makes of the order row it locked ("" when the
\* order can be reviewed); a NULL courier_id scans into uuid.Nil
ReviewRejection(row) ==
  IF row.courier_id = NilCourier THEN "order has no assigned courier"
  ELSE IF row.status # OrderStatusDelivered THEN "order is not delivered yet"
  ELSE IF row.rating # 0 THEN "review already exists for this order"
  ELSE ""

\* the SELECT without FOR UPDATE: the row is read without its lock
CreateReview_SelectOrder_NoLock(p) ==
  /\ pc[p] = "r_lock"
  /\ LET o == call[p].order IN
       IF o \notin DOMAIN orders
       THEN Fail(p, call[p], KindNotFound, "order not found")
       ELSE IF ReviewRejection(orders[o]) # ""
            THEN Fail(p, call[p], KindConflict, ReviewRejection(orders[o]))
            ELSE /\ Goto(p, [call[p] EXCEPT !.courier = orders[o].courier_id], "r_insert")
                 /\ UNCHANGED <<tables, locks, pend, history, limiter>>
  /\ UNCHANGED now

\* SELECT courier_id, status, rating FROM orders WHERE id = $1 FOR UPDATE, and
\* the checks on the row
CreateReview_SelectOrder(p) ==
  /\ pc[p] = "r_lock"
  /\ LET o == call[p].order IN
       IF o \notin DOMAIN orders
       THEN Fail(p, call[p], KindNotFound, "order not found")
       ELSE /\ lockOrder[o] = 0
            /\ IF ReviewRejection(orders[o]) # ""
               THEN Fail(p, call[p], KindConflict, ReviewRejection(orders[o]))
               ELSE /\ lockOrder' = [lockOrder EXCEPT ![o] = p]
                    /\ Goto(p, [call[p] EXCEPT !.courier = orders[o].courier_id],
                            "r_insert")
                    /\ UNCHANGED <<tables, lockCourier, lockPromo, pend, history, limiter>>
  /\ UNCHANGED now

\* uuid.New(): an id no committed or pending review row carries
NewReviewId ==
  CHOOSE i \in 1..(Cardinality(reviews) + NumProcs + 1) :
    /\ \A r \in reviews : r.id # i
    /\ \A q \in Procs : pend[q].review = <<>> \/ pend[q].review[1].id # i

\* the trigger function's new courier row: total_reviews + 1 and the mean of
\* the ratings, a DECIMAL(3,2) kept in hundredths and rounded half up
update_courier_rating_on_review(row, rating) ==
  LET new_total == row.total_reviews + 1
      sum == row.rating * row.total_reviews + 100 * rating
  IN [row EXCEPT !.total_reviews = new_total,
                 !.rating = (2 * sum + new_total) \div (2 * new_total)]

\* the trigger reading the courier row with a plain SELECT
CreateReview_Insert_NoForUpdate(p) ==
  /\ pc[p] = "r_insert"
  /\ LET o == call[p].order
         c == call[p].courier
     IN IF c \notin DOMAIN couriers
        THEN Fail(p, call[p], KindInternal, TxFailMsg("r_insert"))
        ELSE /\ pend' = [pend EXCEPT
                  ![p].review = <<[id |-> NewReviewId, order_id |-> o, courier_id |-> c,
                                   rating |-> call[p].rating]>>,
                  ![p].courier = <<c, update_courier_rating_on_review(couriers[c],
                                                                     call[p].rating)>>]
             /\ Goto(p, call[p], "r_update")
             /\ UNCHANGED <<tables, locks, history, limiter>>
  /\ UNCHANGED now

\* INSERT INTO reviews, and its AFTER INSERT trigger: SELECT ... FROM couriers
\* WHERE id = NEW.courier_id FOR UPDATE, UPDATE couriers SET total_reviews, rating;
\* a courier_id with no courier row violates the foreign key
CreateReview_Insert(p) ==
  /\ pc[p] = "r_insert"
  /\ LET o == call[p].order
         c == call[p].courier
     IN IF c \notin DOMAIN couriers
        THEN Fail(p, call[p], KindInternal, TxFailMsg("r_insert"))
        ELSE /\ lockCourier[c] \in {0, p}
             /\ lockCourier' = [lockCourier EXCEPT ![c] = p]
             /\ pend' = [pend EXCEPT
                  ![p].review = <<[id |-> NewReviewId, order_id |-> o, courier_id |-> c,
                                   rating |-> call[p].rating]>>,
                  ![p].courier = <<c, update_courier_rating_on_review(couriers[c],
                                                                     call[p].rating)>>]
             /\ Goto(p, call[p], "r_update")
             /\ UNCHANGED <<tables, lockOrder, lockPromo, history, limiter>>
  /\ UNCHANGED now

\* UPDATE orders SET rating = $1, review_comment = $2 WHERE id = $4
CreateReview_UpdateOrder(p) ==
  /\ pc[p] = "r_update"
  /\ LET o == call[p].order IN
       /\ lockOrder[o] \in {0, p}
       /\ lockOrder' = [lockOrder EXCEPT ![o] = p]
       /\ pend' = [pend EXCEPT ![p].order = <<o, [orders[o] EXCEPT !.rating = call[p].rating]>>]
       /\ Goto(p, call[p], "r_commit")
       /\ UNCHANGED <<tables, lockCourier, lockPromo, history, limiter>>
  /\ UNCHANGED now

\* tx.Commit
CreateReview_Commit(p) ==
  /\ pc[p] = "r_commit"
  /\ CommitTables(p)
  /\ Done(p, call[p], KindOK, "", "")
  /\ UNCHANGED now

\* INSERT INTO promo_codes (..., used_count, ...) VALUES (..., 0, ...); the
\* primary key refuses a code that exists (the discount payload is taken valid)
CreatePromoCode(p, k, maxUses, active, expiresAt) ==
  /\ pc[p] = "idle"
  /\ LET c == [NoCall EXCEPT !.op = "promo_create", !.promo = k] IN
       IF k \in DOMAIN promos
       THEN /\ Done(p, c, KindConflict, "promo code already exists", "")
            /\ UNCHANGED promos
       ELSE /\ promos' = ApplyWrite(promos, <<k, PromoRow(maxUses, 0, active, expiresAt)>>)
            /\ Done(p, c, KindOK, "", "")
  /\ UNCHANGED <<orders, order_items, reviews, couriers, locks, pend, now, history, limiter>>

\* DELETE FROM promo_codes WHERE code = $1
DeletePromoCode(p, k) ==
  /\ pc[p] = "idle"
  /\ LET c == [NoCall EXCEPT !.op = "promo_delete", !.promo = k] IN
       IF k \notin DOMAIN promos
       THEN /\ Done(p, c, KindNotFound, "promo code not found", "")
            /\ UNCHANGED promos
       ELSE /\ lockPromo[k] = 0
            /\ promos' = [x \in DOMAIN promos \ {k} |-> promos[x]]
            /\ Done(p, c, KindOK, "", "")
  /\ UNCHANGED <<orders, order_items, reviews, couriers, locks, pend, now, history, limiter>>

\* one UPDATE promo_codes SET max_uses, expires_at, active WHERE code = $7
UpdatePromoCode(p, k, maxUses, active, expiresAt) ==
  /\ pc[p] = "idle"
  /\ LET c == [NoCall EXCEPT !.op = "promo_update", !.promo = k] IN
       IF k \notin DOMAIN promos
       THEN /\ Done(p, c, KindNotFound, "promo code not found", "")
            /\ UNCHANGED promos
       ELSE /\ lockPromo[k] = 0
            /\ promos' = [promos EXCEPT ![k].max_uses = maxUses, ![k].active = active,
                                        ![k].expires_at = expiresAt]
            /\ Done(p, c, KindOK, "", "")
  /\ UNCHANGED <<orders, order_items, reviews, couriers, locks, pend, now, history, limiter>>

\* --------------------------------------------------------- specifications
Workers == {1, 2}                  \* the handlers of the looping specifications
Lats == {0, 30}
LocInputs == {<< <<>>, <<>> >>, << <<0>>, <<0>> >>}
StatusInputs == OrderStatuses \cup {"", "unknown"}
CourierInputs == {NilCourier, UuidNil, "c1"}

\* the order lifecycle: status updates, assignments and courier status reports
\* arriving at two handlers, over and over
Next ==
  \/ \E p \in Workers, o \in DOMAIN orders \cup MissingOrder, c \in CourierIds :
       AssignOrderToCourier(p, o, c)
  \/ \E p \in Workers : Assign_SelectCourier(p)
  \/ \E p \in Workers : Assign_UpdateOrder(p)
  \/ \E p \in Workers : Assign_UpdateCourier(p)
  \/ \E p \in Workers : Assign_Commit(p)
  \/ \E p \in Workers, o \in DOMAIN orders \cup MissingOrder, lat \in Lats :
       AutoAssignCourier(p, o, lat)
  \/ \E p \in Workers : AutoAssign_Choose(p)
  \/ \E p \in Workers : AutoAssign_GetCourier(p)
  \/ \E p \in Workers, c \in CourierIds, st \in CourierStatuses, loc \in LocInputs :
       UpdateCourierStatus(p, c, st, loc[1], loc[2])
  \/ \E p \in Workers, o \in DOMAIN orders \cup MissingOrder, st \in StatusInputs,
        cid \in CourierInputs :
       UpdateOrderStatus(p, o, st, cid)
  \/ \E p \in Workers : UpdateOrderStatus_Commit(p)
  \/ \E p \in Workers : TxFail(p)
  \/ \E p \in Workers : Return(p)
  \/ Tick

Spec == Init /\ [][Next]_vars

\* concurrent manual assignments, one per handler, of fresh orders to
\* couriers that are available
InitAssign ==
  /\ orders = [o \in AssignOrderIds |-> OrderRow(OrderStatusCreated, NilCourier, 0, "")]
  /\ couriers = [c \in CourierIds |->
                   [NewCourierRow EXCEPT !.status = CourierStatusAvailable]]
  /\ promos = << >>
  /\ order_items = DOMAIN orders
  /\ reviews = {}
  /\ NoLocks
  /\ IdleProcs
  /\ now = 1
  /\ everDelivered = {}
  /\ usedSeen = [k \in PromoCodes |-> 0]
  /\ LimiterIdle

NextAssign ==
  \/ \E p \in Procs, o \in AssignOrderIds \cup MissingOrder,
        c \in CourierIds \cup {MissingCourier} :
       AssignOrderToCourier(p, o, c)
  \/ \E p \in Procs : Assign_SelectCourier(p)
  \/ \E p \in Procs : Assign_UpdateOrder(p)
  \/ \E p \in Procs : Assign_UpdateCourier(p)
  \/ \E p \in Procs : Assign_Commit(p)

SpecAssign == InitAssign /\ [][NextAssign]_vars

\* concurrent auto-assignments of one order in status created, one per
\* handler, with at least one available courier of known location
Ratings == {400, 450}
TheOrder == CHOOSE o \in OrderIds : TRUE

InitAuto ==
  /\ orders = [o \in OrderIds |-> OrderRow(OrderStatusCreated, NilCourier, 0, "")]
  /\ couriers \in [CourierIds ->
        [status : {CourierStatusAvailable, CourierStatusOffline},
         current_lat : {<<>>} \cup {<<lat>> : lat \in Lats},
         current_lon : {<<>>, <<0>>},
         rating : Ratings, total_reviews : {0}]]
  /\ \E c \in CourierIds :
       /\ couriers[c].status = CourierStatusAvailable
       /\ couriers[c].current_lat # <<>> /\ couriers[c].current_lon # <<>>
  /\ promos = << >>
  /\ order_items = DOMAIN orders
  /\ reviews = {}
  /\ NoLocks
  /\ IdleProcs
  /\ now = 1
  /\ everDelivered = {}
  /\ usedSeen = [k \in PromoCodes |-> 0]
  /\ LimiterIdle

NextAuto ==
  \/ \E p \in Procs, lat \in Lats : AutoAssignCourier(p, TheOrder, lat)
  \/ \E p \in Procs : AutoAssign_Choose(p)
  \/ \E p \in Procs : Assign_SelectCourier(p)
  \/ \E p \in Procs : Assign_UpdateOrder(p)
  \/ \E p \in Procs : Assign_UpdateCourier(p)
  \/ \E p \in Procs : Assign_Commit(p)
  \/ \E p \in Procs : AutoAssign_GetCourier(p)

SpecAuto == InitAuto /\ [][NextAuto]_vars

\* order creation with a promo code just created (used_count 0)
ExpiryInputs == {0, 1, MaxNow}

InitPromo ==
  /\ orders = << >>
  /\ couriers = << >>
  /\ promos \in [PromoCodes ->
        [max_uses : 0..MaxUses, used_count : {0}, active : BOOLEAN,
         expires_at : ExpiryInputs]]
  /\ order_items = DOMAIN orders
  /\ reviews = {}
  /\ NoLocks
  /\ IdleProcs
  /\ now = 1
  /\ everDelivered = {}
  /\ usedSeen = [k \in PromoCodes |-> 0]
  /\ LimiterIdle

NextCreate ==
  \/ \E p \in Workers, hasCoords \in BOOLEAN, k \in PromoCodes \cup {"", MissingPromo} :
       CreateOrder(p, hasCoords, k)
  \/ \E p \in Workers : CreateOrder_ApplyPromo(p)
  \/ \E p \in Workers : CreateOrder_Insert(p)
  \/ \E p \in Workers : CreateOrder_InsertItems(p)
  \/ \E p \in Workers : CreateOrder_Commit(p)
  \/ \E p \in Workers : TxFail(p)
  \/ \E p \in Workers : Return(p)
  \/ Tick

\* the promo code is changed by nothing but the orders that consume it
SpecCreate == InitPromo /\ [][NextCreate]_vars

NextPromo ==
  \/ NextCreate
  \/ \E p \in Workers, k \in PromoCodes \cup {MissingPromo}, m \in 0..MaxUses,
        a \in BOOLEAN, e \in ExpiryInputs :
       UpdatePromoCode(p, k, m, a, e)

\* ... and by UpdatePromoCode
SpecPromo == InitPromo /\ [][NextPromo]_vars

\* the promo codes administered while orders consume them: created (with
\* any max_uses the request carries), updated and deleted
MaxUsesInputs == (0 - 1)..MaxUses

InitPromoAdmin ==
  /\ orders = << >>
  /\ couriers = << >>
  /\ promos = << >>
  /\ order_items = DOMAIN orders
  /\ reviews = {}
  /\ NoLocks
  /\ IdleProcs
  /\ now = 1
  /\ everDelivered = {}
  /\ usedSeen = [k \in PromoCodes |-> 0]
  /\ LimiterIdle

NextPromoAdmin ==
  \/ \E p \in Workers, k \in PromoCodes, m \in MaxUsesInputs, a \in BOOLEAN,
        e \in ExpiryInputs :
       CreatePromoCode(p, k, m, a, e)
  \/ \E p \in Workers, k \in PromoCodes, m \in MaxUsesInputs, a \in BOOLEAN,
        e \in ExpiryInputs :
       UpdatePromoCode(p, k, m, a, e)
  \/ \E p \in Workers, k \in PromoCodes : DeletePromoCode(p, k)
  \/ \E p \in Workers, k \in PromoCodes : CreateOrder(p, TRUE, k)
  \/ \E p \in Workers : CreateOrder_ApplyPromo(p)
  \/ \E p \in Workers : CreateOrder_Insert(p)
  \/ \E p \in Workers : CreateOrder_InsertItems(p)
  \/ \E p \in Workers : CreateOrder_Commit(p)
  \/ \E p \in Workers : Return(p)
  \/ Tick

SpecPromoAdmin == InitPromoAdmin /\ [][NextPromoAdmin]_vars

\* ------------------------------------------------------- RateLimiter.Allow
dbvars == <<tables, locks, pc, call, pend, result, history, handlers, app, aux>>

NewRateLimiter(cfgEnabled, requests, windowSeconds) ==
  IF ~cfgEnabled \/ requests <= 0 \/ windowSeconds <= 0
  THEN DisabledLimiter
  ELSE [enabled |-> TRUE, limit |-> requests, window |-> windowSeconds]

\* the key exists in the store: it was created and its TTL, if it has one,
\* has not run out
Live(k) == redis[k].count > 0 /\ (redis[k].expiry = 0 \/ now < redis[k].expiry)

\* the store after INCR key: a key that does not exist is created at 1,
\* without TTL
Incremented(k) ==
  IF Live(k) THEN [redis[k] EXCEPT !.count = @ + 1] ELSE [count |-> 1, expiry |-> 0]

\* the record of the requests after one more is counted for key k: it is one
\* more of the counter's life or the first of a new one, and it opens a new
\* window of rlcfg.window seconds when the last one opened that long ago
Counted(k) ==
  LET h == rlhist[k] IN
    [hits |-> IF Live(k) THEN h.hits + 1 ELSE 1,
     granted |-> IF Live(k) THEN h.granted ELSE Append(h.granted, 0),
     wstart |-> IF h.wstart = 0 \/ now >= h.wstart + rlcfg.window THEN now ELSE h.wstart]

OpensWindow(k) == rlhist[k].wstart = 0 \/ now >= rlhist[k].wstart + rlcfg.window

\* the calls that are about to increment key k
Incrementing(k) == {q \in Procs : rl[q].pc \in {"incr", "incr2"} /\ rl[q].key = k}

\* a disabled limiter allows at once; an enabled one takes time.Now() and
\* goes on to INCR
Allow(p, k) ==
  /\ rl[p].pc = "idle"
  /\ IF ~rlcfg.enabled
     THEN rl' = [rl EXCEPT ![p] =
                   [NoAllow EXCEPT !.pc = "done", !.key = k, !.at = now, !.allowed = TRUE,
                                   !.remaining = rlcfg.limit,
                                   !.resetAt = now + rlcfg.window]]
     ELSE /\ (IF Live(k) THEN redis[k].count ELSE 0) + Cardinality(Incrementing(k)) < MaxCount
          /\ rl' = [rl EXCEPT ![p] = [NoAllow EXCEPT !.pc = "incr", !.key = k, !.at = now]]
  /\ UNCHANGED <<dbvars, now, redis, rlcfg, rlhist>>

\* the increment made as GET then SET: two steps, other calls in between
Allow_Incr_GetThenSet(p) ==
  /\ rl[p].pc \in {"incr", "incr2"}
  /\ LET k == rl[p].key IN
       IF rl[p].pc = "incr"
       THEN /\ rl' = [rl EXCEPT ![p].pc = "incr2",
                                ![p].count = IF Live(k) THEN redis[k].count ELSE 0]
            /\ UNCHANGED <<redis, rlhist>>
       ELSE /\ redis' = [redis EXCEPT ![k] =
                           [count |-> rl[p].count + 1,
                            expiry |-> IF Live(k) THEN redis[k].expiry ELSE 0]]
            /\ rlhist' = [rlhist EXCEPT ![k] = Counted(k)]
            /\ rl' = [rl EXCEPT ![p].pc = IF rl[p].count + 1 = 1 THEN "expire" ELSE "ttl",
                                ![p].count = rl[p].count + 1,
                                ![p].nth = Counted(k).hits,
                                ![p].life = Len(Counted(k).granted),
                                ![p].fresh = OpensWindow(k)]
  /\ UNCHANGED <<dbvars, middleware, now, rlcfg>>

\* count, err := r.redis.Incr(ctx, redisKey): one atomic INCR
Allow_Incr(p) ==
  /\ rl[p].pc = "incr"
  /\ LET k == rl[p].key IN
       /\ redis' = [redis EXCEPT ![k] = Incremented(k)]
       /\ rlhist' = [rlhist EXCEPT ![k] = Counted(k)]
       /\ rl' = [rl EXCEPT ![p].pc = IF Incremented(k).count = 1 THEN "expire" ELSE "ttl",
                           ![p].count = Incremented(k).count,
                           ![p].nth = Counted(k).hits,
                           ![p].life = Len(Counted(k).granted),
                           ![p].fresh = OpensWindow(k)]
  /\ UNCHANGED <<dbvars, middleware, now, rlcfg>>

\* Incr returns an error (the store unreachable, the context cancelled), the
\* increment made or not: Allow returns false, 0, the zero time and the error
Allow_IncrFail(p, applied) ==
  /\ rl[p].pc = "incr"
  /\ LET k == rl[p].key IN
       IF applied
       THEN /\ redis' = [redis EXCEPT ![k] = Incremented(k)]
            /\ rlhist' = [rlhist EXCEPT ![k] = Counted(k)]
       ELSE UNCHANGED <<redis, rlhist>>
  /\ rl' = [rl EXCEPT ![p] = [NoAllow EXCEPT !.pc = "done", !.key = rl[p].key,
                                              !.at = rl[p].at, !.err = TRUE]]
  /\ UNCHANGED <<dbvars, middleware, now, rlcfg>>

\* if count == 1 { r.redis.Expire(ctx, redisKey, r.window) }: an error is
\* logged and the call goes on
Allow_Expire(p, ok) ==
  /\ rl[p].pc = "expire"
  /\ LET k == rl[p].key IN
       redis' = IF ok /\ Live(k)
                THEN [redis EXCEPT ![k].expiry = now + rlcfg.window]
                ELSE redis
  /\ rl' = [rl EXCEPT ![p].pc = "ttl"]
  /\ UNCHANGED <<dbvars, middleware, now, rlcfg, rlhist>>

\* the result without the clamp of remaining at 0
AllowResult_Unclamped(count, limit) ==
  [allowed |-> count <= limit, remaining |-> limit - count]

\* remaining = r.limit - count, at least 0; allowed = count <= r.limit
AllowResult(count, limit) ==
  [allowed |-> count <= limit,
   remaining |-> IF limit - count < 0 THEN 0 ELSE limit - count]

\* ttl, ttlErr := r.redis.TTL(ctx, redisKey), r.window on an error; a key
\* without TTL or gone answers -1 or -2 nanoseconds, no time at all; then the
\* result is returned
Allow_TTL(p, ok) ==
  /\ rl[p].pc = "ttl"
  /\ LET k == rl[p].key
         ttl == IF ~ok THEN rlcfg.window
                ELSE IF Live(k) /\ redis[k].expiry # 0 THEN redis[k].expiry - now
                ELSE 0
         res == AllowResult(rl[p].count, rlcfg.limit)
     IN /\ rl' = [rl EXCEPT ![p].pc = "done",
                            ![p].allowed = res.allowed,
                            ![p].remaining = res.remaining,
                            ![p].resetAt = rl[p].at + ttl]
        /\ rlhist' = IF res.allowed
                     THEN [rlhist EXCEPT ![k].granted[rl[p].life] = @ + 1]
                     ELSE rlhist
  /\ UNCHANGED <<dbvars, middleware, now, redis, rlcfg>>

\* the caller has the result; the handler takes the next request
Allow_Return(p) ==
  /\ rl[p].pc = "done"
  /\ rl' = [rl EXCEPT ![p] = NoAllow]
  /\ UNCHANGED <<dbvars, now, redis, rlcfg, rlhist>>

\* a second passes
Elapse ==
  /\ now < MaxClock
  /\ now' = now + 1
  /\ UNCHANGED <<dbvars, limiter>>

\* a limiter built from any configuration, over an empty store, serving
\* concurrent requests as time passes
InitLimiter ==
  /\ orders = << >>
  /\ couriers = << >>
  /\ promos = << >>
  /\ order_items = DOMAIN orders
  /\ reviews = {}
  /\ NoLocks
  /\ IdleProcs
  /\ now = 1
  /\ everDelivered = {}
  /\ usedSeen = [k \in PromoCodes |-> 0]
  /\ redis = [k \in RateKeys |-> NoKey]
  /\ rl = [p \in Procs |-> NoAllow]
  /\ rlcfg \in {NewRateLimiter(e, r, w) :
                  e \in BOOLEAN, r \in 0..MaxLimit, w \in 0..MaxWindow}
  /\ rlhist = [k \in RateKeys |-> NoHist]
  /\ mwLimiter = TRUE
  /\ mw = [p \in Procs |-> NoRequest]
  /\ rlclient = NoClients

NextLimiter ==
  \/ \E p \in Workers, k \in RateKeys : Allow(p, k) /\ UNCHANGED middleware
  \/ \E p \in Workers : Allow_Incr(p)
  \/ \E p \in Workers, applied \in BOOLEAN : Allow_IncrFail(p, applied)
  \/ \E p \in Workers, ok \in BOOLEAN : Allow_Expire(p, ok)
  \/ \E p \in Workers, ok \in BOOLEAN : Allow_TTL(p, ok)
  \/ \E p \in Workers : Allow_Return(p) /\ UNCHANGED middleware
  \/ Elapse

SpecLimiter == InitLimiter /\ [][NextLimiter]_vars

\* ------------------------------------------------------- RateLimiter.Usage
\* a disabled limiter answers 0, limit and no reset time; an enabled one
\* goes on to read the counter
Usage(p, k) ==
  /\ rl[p].pc = "idle"
  /\ rl' = [rl EXCEPT ![p] =
              IF ~rlcfg.enabled
              THEN [NoAllow EXCEPT !.pc = "udone", !.key = k, !.remaining = rlcfg.limit]
              ELSE [NoAllow EXCEPT !.pc = "get", !.key = k]]
  /\ UNCHANGED <<dbvars, middleware, now, redis, rlcfg, rlhist>>

\* the counter read by incrementing it
Usage_GetInt_Counting(p, ok) ==
  /\ rl[p].pc = "get"
  /\ LET k == rl[p].key IN
       /\ redis' = [redis EXCEPT ![k] = Incremented(k)]
       /\ rl' = [rl EXCEPT ![p].pc = "uttl", ![p].count = Incremented(k).count]
  /\ UNCHANGED <<dbvars, middleware, now, rlcfg, rlhist>>

\* count, err := r.redis.GetInt(ctx, redisKey): a key that does not exist,
\* like any other error, is answered 0, limit and no reset time
Usage_GetInt(p, ok) ==
  /\ rl[p].pc = "get"
  /\ LET k == rl[p].key IN
       rl' = [rl EXCEPT ![p] =
                IF ~ok \/ ~Live(k)
                THEN [NoAllow EXCEPT !.pc = "udone", !.key = k, !.remaining = rlcfg.limit]
                ELSE [rl[p] EXCEPT !.pc = "uttl", !.count = redis[k].count]]
  /\ UNCHANGED <<dbvars, middleware, now, redis, rlcfg, rlhist>>

\* ttl, ttlErr := r.redis.TTL(ctx, redisKey): resetAt = time.Now() + ttl unless
\* TTL failed; used = count, remaining = limit - count, at least 0
Usage_TTL(p, ok) ==
  /\ rl[p].pc = "uttl"
  /\ LET k == rl[p].key
         ttl == IF Live(k) /\ redis[k].expiry # 0 THEN redis[k].expiry - now ELSE 0
     IN rl' = [rl EXCEPT ![p].pc = "udone",
                         ![p].used = rl[p].count,
                         ![p].remaining = AllowResult(rl[p].count, rlcfg.limit).remaining,
                         ![p].hasReset = ok,
                         ![p].resetAt = IF ok THEN now + ttl ELSE 0]
  /\ UNCHANGED <<dbvars, middleware, now, redis, rlcfg, rlhist>>

\* the caller has the usage
Usage_Return(p) ==
  /\ rl[p].pc = "udone"
  /\ rl' = [rl EXCEPT ![p] = NoAllow]
  /\ UNCHANGED <<dbvars, middleware, now, redis, rlcfg, rlhist>>

\* the handler that serves the Allow calls and the one that serves the
\* Usage calls made in between
AllowWorkers == {1}
UsageWorkers == {2}

\* Usage calls among the steps of the Allow calls
NextUsage ==
  \/ \E p \in AllowWorkers, k \in RateKeys : Allow(p, k) /\ UNCHANGED middleware
  \/ \E p \in AllowWorkers : Allow_Incr(p)
  \/ \E p \in AllowWorkers, applied \in BOOLEAN : Allow_IncrFail(p, applied)
  \/ \E p \in AllowWorkers, ok \in BOOLEAN : Allow_Expire(p, ok)
  \/ \E p \in AllowWorkers, ok \in BOOLEAN : Allow_TTL(p, ok)
  \/ \E p \in AllowWorkers : Allow_Return(p) /\ UNCHANGED middleware
  \/ \E p \in UsageWorkers, k \in RateKeys : Usage(p, k)
  \/ \E p \in UsageWorkers, ok \in BOOLEAN : Usage_GetInt(p, ok)
  \/ \E p \in UsageWorkers, ok \in BOOLEAN : Usage_TTL(p, ok)
  \/ \E p \in UsageWorkers : Usage_Return(p)
  \/ Elapse

SpecUsage == InitLimiter /\ [][NextUsage]_vars

\* ----------------------------------------------------- RateLimitMiddleware
\* a request arrives: with no limiter or a disabled one the wrapped handler
\* runs at once; otherwise limiter.Allow is called with the client's key
RateLimitMiddleware(p, k) ==
  /\ mw[p].pc = "idle"
  /\ rl[p].pc = "idle"
  /\ IF ~mwLimiter \/ ~rlcfg.enabled
     THEN /\ mw' = [mw EXCEPT ![p] = [NoRequest EXCEPT !.pc = "done", !.status = 200,
                                                     !.next = 1]]
          /\ UNCHANGED <<dbvars, now, redis, rl, rlcfg, rlhist>>
     ELSE /\ mw' = [mw EXCEPT ![p] = [NoRequest EXCEPT !.pc = "allow"]]
          /\ Allow(p, k)
  /\ UNCHANGED <<mwLimiter, rlclient>>

\* the response for what Allow returned, the wrapped handler run even when
\* the request was refused or the limiter failed
Response_FailOpen(a, limit) ==
  [NoRequest EXCEPT !.pc = "done", !.status = 200, !.next = 1,
                    !.headers = <<limit, a.remaining, a.resetAt>>]

\* the response for what Allow returned: 500 on an error; else the
\* X-RateLimit headers, and 429 when refused or the wrapped handler's response
Response(a, limit) ==
  IF a.err
  THEN [NoRequest EXCEPT !.pc = "done", !.status = 500]
  ELSE IF ~a.allowed
  THEN [NoRequest EXCEPT !.pc = "done", !.status = 429,
                         !.headers = <<limit, a.remaining, a.resetAt>>]
  ELSE [NoRequest EXCEPT !.pc = "done", !.status = 200, !.next = 1,
                         !.headers = <<limit, a.remaining, a.resetAt>>]

\* Allow has returned: the middleware answers
Middleware_Respond(p) ==
  /\ mw[p].pc = "allow"
  /\ Allow_Return(p)
  /\ mw' = [mw EXCEPT ![p] = Response(rl[p], rlcfg.limit)]
  /\ UNCHANGED <<mwLimiter, rlclient>>

\* the response is sent; the handler takes the next request
Middleware_Return(p) ==
  /\ mw[p].pc = "done"
  /\ mw' = [mw EXCEPT ![p] = NoRequest]
  /\ UNCHANGED <<dbvars, now, redis, rl, rlcfg, rlhist, mwLimiter, rlclient>>

\* requests through the middleware of a server built with any limiter or
\* none, two at a time, within one second
InitMiddleware ==
  /\ orders = << >>
  /\ couriers = << >>
  /\ promos = << >>
  /\ order_items = DOMAIN orders
  /\ reviews = {}
  /\ NoLocks
  /\ IdleProcs
  /\ now = 1
  /\ everDelivered = {}
  /\ usedSeen = [k \in PromoCodes |-> 0]
  /\ redis = [k \in RateKeys |-> NoKey]
  /\ rl = [p \in Procs |-> NoAllow]
  /\ rlhist = [k \in RateKeys |-> NoHist]
  /\ mwLimiter \in BOOLEAN
  /\ rlcfg \in IF mwLimiter
               THEN {NewRateLimiter(e, r, w) :
                       e \in BOOLEAN, r \in 0..MaxLimit, w \in 0..MaxWindow}
               ELSE {DisabledLimiter}
  /\ mw = [p \in Procs |-> NoRequest]
  /\ rlclient = NoClients

NextMiddleware ==
  \/ \E p \in Workers, k \in RateKeys : RateLimitMiddleware(p, k)
  \/ \E p \in Workers : Allow_Incr(p)
  \/ \E p \in Workers, applied \in BOOLEAN : Allow_IncrFail(p, applied)
  \/ \E p \in Workers, ok \in BOOLEAN : Allow_Expire(p, ok)
  \/ \E p \in Workers, ok \in BOOLEAN : Allow_TTL(p, ok)
  \/ \E p \in Workers : Middleware_Respond(p)
  \/ \E p \in Workers : Middleware_Return(p)

SpecMiddleware == InitMiddleware /\ [][NextMiddleware]_vars

\* reviews of two orders that are on their way or delivered, by couriers or
\* by nobody, while their status is updated and they are assigned
ReviewRatings == {2, 5, 6}
ReviewStatusInputs == {OrderStatusDelivered}
ReviewCourierInputs == {NilCourier, "c2"}

InitReview ==
  /\ orders \in {f \in [AssignOrderIds ->
                         {OrderRow(OrderStatusCreated, NilCourier, 0, ""),
                          OrderRow(OrderStatusInDelivery, NilCourier, 0, ""),
                          OrderRow(OrderStatusInDelivery, "c1", 0, "")}] :
                    /\ f[1].status = OrderStatusInDelivery
                    /\ f[1].courier_id = NilCourier => f[2].courier_id = NilCourier}
  /\ couriers = [c \in CourierIds |->
                   [NewCourierRow EXCEPT !.status = CourierStatusAvailable]]
  /\ promos = << >>
  /\ order_items = DOMAIN orders
  /\ reviews = {}
  /\ NoLocks
  /\ IdleProcs
  /\ now = 1
  /\ everDelivered = {}
  /\ usedSeen = [k \in PromoCodes |-> 0]
  /\ LimiterIdle

NextReview ==
  \/ \E p \in Workers, o \in DOMAIN orders \cup MissingOrder, r \in ReviewRatings :
       CreateReview(p, o, r)
  \/ \E p \in Workers : CreateReview_SelectOrder(p)
  \/ \E p \in Workers : CreateReview_Insert(p)
  \/ \E p \in Workers : CreateReview_UpdateOrder(p)
  \/ \E p \in Workers : CreateReview_Commit(p)
  \/ \E p \in Workers, o \in DOMAIN orders, st \in ReviewStatusInputs,
        cid \in ReviewCourierInputs :
       UpdateOrderStatus(p, o, st, cid)
  \/ \E p \in Workers : UpdateOrderStatus_Commit(p)
  \/ \E p \in Workers, o \in DOMAIN orders, c \in CourierIds :
       AssignOrderToCourier(p, o, c)
  \/ \E p \in Workers : Assign_SelectCourier(p)
  \/ \E p \in Workers : Assign_UpdateOrder(p)
  \/ \E p \in Workers : Assign_UpdateCourier(p)
  \/ \E p \in Workers : Assign_Commit(p)
  \/ \E p \in Workers : TxFail(p)
  \/ \E p \in Workers : Return(p)

SpecReview == InitReview /\ [][NextReview]_vars

\* ------------------------------------------------------------ OrderHandler
svcvars == <<tables, locks, pc, call, pend, result, history>>
ratelimit == <<redis, rl, rlcfg, rlhist, middleware, app, aux>>

\* strings.Contains(err.Error(), "not found") over the messages of the services
ContainsNotFound(msg) ==
  msg \in {"order not found", "courier not found", "promo code not found",
           "failed to get order: order not found"}

\* the requests taken so far
RequestsTaken ==
  LET S[i \in 0..NumProcs] == IF i = 0 THEN 0 ELSE S[i - 1] + http[i].n IN S[NumProcs]

\* the handler answers with status code and is through
Respond(p, h, code) == http' = [http EXCEPT ![p] = [h EXCEPT !.pc = "done", !.code = code]]

\* the event a handler hands to the producer; req names the request (the
\* handler and the count of its requests), for the history only
Event(p, type, old, new) ==
  [type |-> type, order |-> call[p].order, old |-> old, new |-> new,
   req |-> <<p, http[p].n>>]

\* OrderHandler.CreateOrder up to the service call: the body decoded and
\* validated, missing coordinates geocoded (good: the request passes both)
OrderHandler_CreateOrder(p, good, autoAssign) ==
  /\ http[p].pc = "idle" /\ pc[p] = "idle"
  /\ RequestsTaken < MaxRequests
  /\ LET h == [NoHttp EXCEPT !.op = "create", !.autoAssign = autoAssign,
                             !.n = http[p].n + 1] IN
       IF ~good
       THEN Respond(p, h, 400)
       ELSE http' = [http EXCEPT ![p] = [h EXCEPT !.pc = "svc"]]
  /\ UNCHANGED <<svcvars, now, published, cache, ratelimit>>

\* h.orderService.CreateOrder(&req) begins, the coordinates present
OrderHandler_CreateOrder_Call(p) ==
  /\ http[p].pc = "svc" /\ http[p].op = "create" /\ pc[p] = "idle"
  /\ CreateOrder(p, TRUE, "")

\* a service call that returned an error: CreateOrder is answered 500,
\* UpdateOrderStatus 404 when the message contains "not found" and 500 otherwise
OrderHandler_ServiceError(p) ==
  /\ http[p].pc = "svc" /\ pc[p] = "done" /\ result[p].kind # KindOK
  /\ Respond(p, http[p],
             IF http[p].op = "status" /\ ContainsNotFound(result[p].msg) THEN 404 ELSE 500)
  /\ UNCHANGED <<svcvars, now, published, cache, ratelimit>>

\* h.producer.PublishOrderCreated(order): an error is logged (delivered: the
\* producer's send succeeded)
OrderHandler_PublishOrderCreated(p, delivered) ==
  /\ http[p].pc = "svc" /\ http[p].op = "create"
  /\ pc[p] = "done" /\ result[p].kind = KindOK
  /\ published' = IF delivered
                  THEN Append(published, Event(p, "order.created", "", OrderStatusCreated))
                  ELSE published
  /\ http' = [http EXCEPT ![p].pc = "cache", ![p].order = call[p].order,
                          ![p].pubErr = ~delivered]
  /\ UNCHANGED <<svcvars, now, cache, ratelimit>>

\* h.redisClient.Set(cacheKey, order): an error is logged. Without AutoAssign
\* the order is answered with 201; with it AutoAssignCourier is called next
OrderHandler_CacheOrder(p, stored) ==
  /\ http[p].pc = "cache" /\ http[p].op = "create"
  /\ cache' = IF stored THEN [cache EXCEPT ![http[p].order] = <<OrderStatusCreated>>]
              ELSE cache
  /\ IF http[p].autoAssign
     THEN /\ http' = [http EXCEPT ![p].pc = "auto", ![p].cacheErr = ~stored]
          /\ pc' = [pc EXCEPT ![p] = "idle"]
          /\ call' = [call EXCEPT ![p] = NoCall]
          /\ result' = [result EXCEPT ![p] = NoResult]
     ELSE /\ Respond(p, [http[p] EXCEPT !.cacheErr = ~stored], 201)
          /\ UNCHANGED <<pc, call, result>>
  /\ UNCHANGED <<tables, locks, pend, history, now, published, ratelimit>>

\* h.assignmentService.AutoAssignCourier(order.ID, lat, lon) of CreateOrder
OrderHandler_AutoAssign(p, lat) ==
  /\ http[p].pc = "auto" /\ pc[p] = "idle"
  /\ AutoAssignCourier(p, http[p].order, lat)

\* AutoAssignCourier has returned: an error is logged; after a success the
\* order is reloaded and the cache key deleted (its error not looked at);
\* the answer is 201 either way
OrderHandler_AutoAssigned(p, deleted) ==
  /\ http[p].pc = "auto" /\ pc[p] = "done"
  /\ cache' = IF result[p].kind = KindOK /\ deleted
              THEN [cache EXCEPT ![http[p].order] = <<>>]
              ELSE cache
  /\ Respond(p, http[p], 201)
  /\ UNCHANGED <<svcvars, now, published, ratelimit>>

\* OrderHandler.UpdateOrderStatus up to the service call: the path and the
\* body decoded, h.orderService.GetOrder (found: its query succeeded) and
\* oldStatus := currentOrder.Status
OrderHandler_UpdateOrderStatus(p, o, st, cid, found) ==
  /\ http[p].pc = "idle" /\ pc[p] = "idle"
  /\ RequestsTaken < MaxRequests
  /\ LET h == [NoHttp EXCEPT !.op = "status", !.order = o, !.status = st, !.cid = cid,
                             !.n = http[p].n + 1] IN
       IF o \notin DOMAIN orders THEN Respond(p, h, 404)
       ELSE IF ~found THEN Respond(p, h, 500)
       ELSE http' = [http EXCEPT ![p] =
                       [h EXCEPT !.pc = "svc", !.oldStatus = orders[o].status]]
  /\ UNCHANGED <<svcvars, now, published, cache, ratelimit>>

\* h.orderService.UpdateOrderStatus(orderID, &req) begins
OrderHandler_UpdateOrderStatus_Call(p) ==
  /\ http[p].pc = "svc" /\ http[p].op = "status" /\ pc[p] = "idle"
  /\ UpdateOrderStatus(p, http[p].order, http[p].status, http[p].cid)

\* the event published once the transaction has begun, before its commit
OrderHandler_PublishOrderStatusChanged_Early(p, delivered) ==
  /\ http[p].pc = "svc" /\ http[p].op = "status"
  /\ pc[p] = "u_commit"
  /\ published' = IF delivered
                  THEN Append(published, Event(p, "order.status_changed",
                                               http[p].oldStatus, http[p].status))
                  ELSE published
  /\ http' = [http EXCEPT ![p].pc = "cache", ![p].pubErr = ~delivered]
  /\ UNCHANGED <<svcvars, now, cache, ratelimit>>

\* h.producer.PublishOrderStatusChanged(orderID, oldStatus, req.Status,
\* req.CourierID): an error is logged
OrderHandler_PublishOrderStatusChanged(p, delivered) ==
  /\ http[p].pc = "svc" /\ http[p].op = "status"
  /\ pc[p] = "done" /\ result[p].kind = KindOK
  /\ published' = IF delivered
                  THEN Append(published, Event(p, "order.status_changed",
                                               http[p].oldStatus, http[p].status))
                  ELSE published
  /\ http' = [http EXCEPT ![p].pc = "cache", ![p].pubErr = ~delivered]
  /\ UNCHANGED <<svcvars, now, cache, ratelimit>>

\* the cache invalidation whose error is answered with 500
OrderHandler_InvalidateCache_FailsRequest(p, deleted) ==
  /\ http[p].pc = "cache" /\ http[p].op = "status"
  /\ cache' = IF deleted THEN [cache EXCEPT ![http[p].order] = <<>>] ELSE cache
  /\ Respond(p, [http[p] EXCEPT !.cacheErr = ~deleted], IF deleted THEN 200 ELSE 500)
  /\ UNCHANGED <<svcvars, now, published, ratelimit>>

\* h.redisClient.Delete(cacheKey): an error is logged; then the answer 200
OrderHandler_InvalidateCache(p, deleted) ==
  /\ http[p].pc = "cache" /\ http[p].op = "status"
  /\ cache' = IF deleted THEN [cache EXCEPT ![http[p].order] = <<>>] ELSE cache
  /\ Respond(p, [http[p] EXCEPT !.cacheErr = ~deleted], 200)
  /\ UNCHANGED <<svcvars, now, published, ratelimit>>

\* the response is written; the handler takes its next request
OrderHandler_Return(p) ==
  /\ http[p].pc = "done"
  /\ http' = [http EXCEPT ![p] = [NoHttp EXCEPT !.n = http[p].n]]
  /\ pc' = [pc EXCEPT ![p] = "idle"]
  /\ call' = [call EXCEPT ![p] = NoCall]
  /\ result' = [result EXCEPT ![p] = NoResult]
  /\ UNCHANGED <<tables, locks, pend, history, now, published, cache, ratelimit>>

\* the statuses the requests of the handler specification ask for
HandlerStatusInputs == {OrderStatusAccepted, OrderStatusPreparing}

\* one order created and one courier available at a known place; the two
\* handlers idle
InitHandler ==
  /\ orders = [o \in OrderIds |-> OrderRow(OrderStatusCreated, NilCourier, 0, "")]
  /\ couriers = [c \in {"c1"} |->
                   [NewCourierRow EXCEPT !.status = CourierStatusAvailable,
                                         !.current_lat = <<0>>, !.current_lon = <<0>>]]
  /\ promos = << >>
  /\ order_items = DOMAIN orders
  /\ reviews = {}
  /\ NoLocks
  /\ IdleProcs
  /\ now = 1
  /\ everDelivered = {}
  /\ usedSeen = [k \in PromoCodes |-> 0]
  /\ LimiterIdle

\* the goroutine that takes the requests to create orders
CreateWorkers == {1}

\* requests to create orders and to change their status, handled by two
\* goroutines of the server, with the producer, the cache and the database
\* failing or not
NextHandler ==
  \/ \E p \in CreateWorkers, good \in BOOLEAN, autoAssign \in BOOLEAN :
       OrderHandler_CreateOrder(p, good, autoAssign)
  \/ \E p \in Workers : OrderHandler_CreateOrder_Call(p)
  \/ \E p \in Workers : CreateOrder_Insert(p)
  \/ \E p \in Workers : CreateOrder_InsertItems(p)
  \/ \E p \in Workers : CreateOrder_Commit(p)
  \/ \E p \in Workers : OrderHandler_ServiceError(p)
  \/ \E p \in Workers, delivered \in BOOLEAN : OrderHandler_PublishOrderCreated(p, delivered)
  \/ \E p \in Workers, stored \in BOOLEAN : OrderHandler_CacheOrder(p, stored)
  \/ \E p \in Workers : OrderHandler_AutoAssign(p, 0)
  \/ \E p \in Workers : AutoAssign_Choose(p)
  \/ \E p \in Workers : Assign_SelectCourier(p)
  \/ \E p \in Workers : Assign_UpdateOrder(p)
  \/ \E p \in Workers : Assign_UpdateCourier(p)
  \/ \E p \in Workers : Assign_Commit(p)
  \/ \E p \in Workers : AutoAssign_GetCourier(p)
  \/ \E p \in Workers, deleted \in BOOLEAN : OrderHandler_AutoAssigned(p, deleted)
  \/ \E p \in Workers, o \in DOMAIN orders \cup MissingOrder, st \in HandlerStatusInputs,
        found \in BOOLEAN :
       OrderHandler_UpdateOrderStatus(p, o, st, NilCourier, found)
  \/ \E p \in Workers : OrderHandler_UpdateOrderStatus_Call(p)
  \/ \E p \in Workers : UpdateOrderStatus_Commit(p)
  \/ \E p \in Workers : TxFail(p)
  \/ \E p \in Workers, delivered \in BOOLEAN :
       OrderHandler_PublishOrderStatusChanged(p, delivered)
  \/ \E p \in Workers, deleted \in BOOLEAN : OrderHandler_InvalidateCache(p, deleted)
  \/ \E p \in Workers : OrderHandler_Return(p)

SpecHandler == InitHandler /\ [][NextHandler]_vars

\* -------------------------------------------------------------------- main
mainrest == <<svcvars, handlers, now, redis, rl, rlcfg, rlhist, middleware, aux>>

\* the server accepts a request: before Shutdown is called
Main_Accept ==
  /\ app.pc \in {"serving", "consumer.Stop"}
  /\ app.active < NumProcs
  /\ app' = [app EXCEPT !.active = @ + 1]
  /\ UNCHANGED mainrest

\* a handler of the server returns
Main_Served ==
  /\ app.pc \notin {"exited", "fatal"}
  /\ app.active > 0
  /\ app' = [app EXCEPT !.active = @ - 1]
  /\ UNCHANGED mainrest

\* ListenAndServe returns an error other than ErrServerClosed: log.Fatal
\* exits the process
Main_ListenFailed ==
  /\ app.pc \in {"serving", "consumer.Stop"}
  /\ app' = [app EXCEPT !.pc = "fatal"]
  /\ UNCHANGED mainrest

\* the call on component i has returned (failed: with an error)
Returned(a, i, failed) ==
  [a EXCEPT !.state[i] = "closed", !.errs = IF failed THEN @ \cup {i} ELSE @]

\* main closing the database right after the producer, the cache client last
MainNext_DbBeforeRedis(i) == IF i = 3 THEN 5 ELSE IF i = 5 THEN 4 ELSE IF i = 4 THEN 6 ELSE i + 1

\* the statement after the call on component i: the next component's call,
\* or the end of main after the last
MainNext(i) == i + 1

\* the call main is in for component i
CallOf(i) ==
  CASE i = 1 -> "consumer.Stop" [] i = 2 -> "server.Shutdown"
    [] i = 3 -> "producer.Close" [] i = 4 -> "redis.Close" [] OTHER -> "db.Close"

\* main calls the Stop, Shutdown or Close of component i
Begin(a, i) == [a EXCEPT !.pc = CallOf(i), !.state[i] = "closing"]

\* <-quit receives SIGINT or SIGTERM; main calls app.consumer.Stop()
Main_Quit ==
  /\ app.pc = "serving"
  /\ app' = Begin(app, 1)
  /\ UNCHANGED mainrest

\* app.consumer.Stop(), app.producer.Close(), app.redis.Close() or
\* app.db.Close() returns, its error dropped; main goes on to its next
\* statement
Main_Closed(i, failed) ==
  /\ i \in DOMAIN Components /\ i # 2
  /\ app.pc = CallOf(i)
  /\ LET a == Returned(app, i, failed)
         n == MainNext(i)
     IN app' = IF n \in DOMAIN Components THEN Begin(a, n)
               ELSE [a EXCEPT !.pc = "exited"]
  /\ UNCHANGED mainrest

\* app.server.Shutdown(ctx) returns: nil once no request is in flight, or
\* the context's error after 30 seconds with requests still running (logged)
Main_Shutdown(timedOut) ==
  /\ app.pc = CallOf(2)
  /\ IF timedOut THEN app.active > 0 ELSE app.active = 0
  /\ LET a == [Returned(app, 2, timedOut) EXCEPT !.forced = timedOut]
         n == MainNext(2)
     IN app' = Begin(a, n)
  /\ UNCHANGED mainrest

\* the server process from start to exit
NextMain ==
  \/ Main_Accept
  \/ Main_Served
  \/ Main_ListenFailed
  \/ Main_Quit
  \/ \E i \in DOMAIN Components, failed \in BOOLEAN : Main_Closed(i, failed)
  \/ \E timedOut \in BOOLEAN : Main_Shutdown(timedOut)

SpecMain == Init /\ [][NextMain]_vars

\* ------------------------------------------------ AnalyticsService.GetKPIs
\* Timestamps are the clock's values; a calendar day holds two of them.
Day(t) == t \div 2

defaultTopItems == 5
defaultCouriers == 50
defaultGroupBy == "none"
cacheTTL == 1

\* total_amount of an order: written once by CreateOrder
total_amount(o) == 100 * o

normalizeFilter(filter) ==
  LET g == IF filter.GroupBy = "" THEN defaultGroupBy ELSE filter.GroupBy IN
    [From |-> filter.From, To |-> filter.To, GroupBy |-> g,
     TopItemsLimit |-> IF filter.TopItemsLimit <= 0 THEN defaultTopItems
                       ELSE filter.TopItemsLimit,
     CourierLimit |-> IF filter.CourierLimit <= 0 THEN defaultCouriers
                      ELSE filter.CourierLimit,
     IncludePeriods |-> g # "none"]

\* "%s:%s:%s:%s:%d:%d:%t" under the stats prefix: From and To enter the key
\* formatted as "2006-01-02", their day only
buildCacheKey(kind, filter) ==
  <<"stats", kind, Day(filter.From), Day(filter.To), filter.GroupBy,
    filter.TopItemsLimit, filter.CourierLimit, filter.IncludePeriods>>

\* WHERE status = 'delivered' AND delivered_at BETWEEN $1 AND $2
deliveredBetween(from, to) ==
  {o \in DOMAIN orders : /\ orders[o].status = OrderStatusDelivered
                         /\ from <= orders[o].delivered_at
                         /\ orders[o].delivered_at <= to}

RECURSIVE SumAmount(_)
SumAmount(S) ==
  IF S = {} THEN 0
  ELSE LET o == CHOOSE x \in S : TRUE IN total_amount(o) + SumAmount(S \ {o})

\* SUM(total_amount), COUNT(*), AVG(total_amount), each COALESCEd to 0
fetchKPISummary(filter) ==
  LET S == deliveredBetween(filter.From, filter.To) IN
    [Revenue |-> SumAmount(S), OrdersCount |-> Cardinality(S),
     AverageCheck |-> IF S = {} THEN 0 ELSE SumAmount(S) \div Cardinality(S)]

\* GROUP BY date_trunc('day', delivered_at) ORDER BY period: one row per day
\* that has a delivered order; nil when the filter asks for no periods
fetchKPIPeriods(filter) ==
  IF filter.GroupBy = "none" \/ ~filter.IncludePeriods THEN <<>>
  ELSE LET S == deliveredBetween(filter.From, filter.To)
           days == {Day(orders[o].delivered_at) : o \in S}
       IN [d \in days |->
             [OrdersCount |-> Cardinality({o \in S : Day(orders[o].delivered_at) = d}),
              Revenue |-> SumAmount({o \in S : Day(orders[o].delivered_at) = d})]]

\* the delivered orders' items, at most TopItemsLimit of them
fetchTopItems(filter) ==
  LET S == deliveredBetween(filter.From, filter.To) \cap order_items IN
    IF Cardinality(S) <= filter.TopItemsLimit THEN S ELSE {}

\* json.Marshal of a KPIMetrics and json.Unmarshal of the bytes: the fields in
\* the order of the struct, periods left out when empty (omitempty)
json_Marshal(v) ==
  <<v.From, v.To, v.Revenue, v.OrdersCount, v.AverageCheck, v.TopItems>>
    \o (IF v.Periods = <<>> THEN <<>> ELSE <<v.Periods>>)
    \o <<v.GeneratedAt, v.GroupBy>>

json_Unmarshal(data) ==
  LET n == Len(data) IN
    [From |-> data[1], To |-> data[2], Revenue |-> data[3], OrdersCount |-> data[4],
     AverageCheck |-> data[5], TopItems |-> data[6],
     Periods |-> IF n = 9 THEN data[7] ELSE <<>>,
     GeneratedAt |-> data[n - 1], GroupBy |-> data[n]]

\* the summary fields of a KPIMetrics
Summary(v) ==
  [Revenue |-> v.Revenue, OrdersCount |-> v.OrdersCount, AverageCheck |-> v.AverageCheck]

\* a key read by redis GET at time t: the value, or <<>> on redis.Nil
redisGet(key, t) ==
  IF key \in DOMAIN stats /\ t < stats[key].exp THEN stats[key].data ELSE <<>>

\* tryGetFromCache that never finds the key
tryGetFromCache_AlwaysMiss(key, t, readErr) == FALSE

\* tryGetFromCache: s.redis.Get returned no error
tryGetFromCache(key, t, readErr) == ~readErr /\ redisGet(key, t) # <<>>

kpirest ==
  <<svcvars, handlers, app, now, redis, rl, rlcfg, rlhist, middleware, geocoding, list>>

\* the calls of GetKPIs taken so far
KpiCalls == kpiLog.n + Cardinality({p \in Procs : kpi[p].pc \notin {"idle", "done"}})

\* the earlier results under key that were returned less than cacheTTL ago
EarlierWithinTTL(key) ==
  {[summary |-> e.summary, wrote |-> e.wrote] :
     e \in {x \in kpiLog.calls : x.key = key /\ now < x.at + cacheTTL}}

\* what is kept of a call once it has returned
KpiBrief(k) ==
  [k EXCEPT !.filter = <<>>, !.summary = <<>>, !.periods = <<>>, !.topItems = <<>>,
            !.at = 0]

\* the call k has returned
Logged(k) ==
  [n |-> kpiLog.n + 1,
   calls |-> {x \in kpiLog.calls : now < x.at + cacheTTL} \cup
             (IF k.err THEN {}
              ELSE {[key |-> k.key, at |-> k.at, wrote |-> k.wrote,
                     summary |-> Summary(k.res)]})]

\* GetKPIs up to the cache lookup: on a hit the cached value is returned
GetKPIs(p, filter, readErr) ==
  /\ kpi[p].pc = "idle"
  /\ KpiCalls < MaxRequests
  /\ LET f == normalizeFilter(filter)
         cacheKey == buildCacheKey("kpi", f)
         k == [NoKpi EXCEPT !.filter = f, !.key = cacheKey, !.at = now,
                            !.readErr = readErr, !.earlier = EarlierWithinTTL(cacheKey)]
     IN IF tryGetFromCache(cacheKey, now, readErr)
        THEN LET hit == [k EXCEPT !.pc = "done",
                                  !.res = json_Unmarshal(redisGet(cacheKey, now))]
             IN kpi' = [kpi EXCEPT ![p] = KpiBrief(hit)] /\ kpiLog' = Logged(hit)
        ELSE kpi' = [kpi EXCEPT ![p] = [k EXCEPT !.pc = "fetch"]] /\ UNCHANGED kpiLog
  /\ UNCHANGED <<stats, kpirest>>

\* the three queries, one after the other; failedAt names the one that fails
\* (0: none); fetchKPIPeriods sends none when the filter asks for no periods
GetKPIs_Fetch(p, failedAt) ==
  /\ kpi[p].pc = "fetch"
  /\ LET f == kpi[p].filter
         sent == ~(f.GroupBy = "none" \/ ~f.IncludePeriods)
     IN /\ failedAt = 2 => sent
        /\ IF failedAt # 0
           THEN LET k == [kpi[p] EXCEPT !.pc = "done", !.err = TRUE, !.at = now,
                                        !.queries = IF failedAt = 3 /\ ~sent THEN 2
                                                    ELSE failedAt]
                IN kpi' = [kpi EXCEPT ![p] = KpiBrief(k)] /\ kpiLog' = Logged(k)
           ELSE /\ kpi' = [kpi EXCEPT ![p].pc = "save",
                                      ![p].queries = IF sent THEN 3 ELSE 2,
                                      ![p].summary = fetchKPISummary(f),
                                      ![p].periods = fetchKPIPeriods(f),
                                      ![p].topItems = fetchTopItems(f)]
                /\ UNCHANGED kpiLog
  /\ UNCHANGED <<stats, kpirest>>

\* the result is populated and saveToCache runs; a failure of Set is logged
GetKPIs_saveToCache(p, stored) ==
  /\ kpi[p].pc = "save"
  /\ LET k == kpi[p]
         res == [From |-> k.filter.From, To |-> k.filter.To,
                 Revenue |-> k.summary.Revenue, OrdersCount |-> k.summary.OrdersCount,
                 AverageCheck |-> k.summary.AverageCheck, TopItems |-> k.topItems,
                 Periods |-> k.periods, GeneratedAt |-> now,
                 GroupBy |-> k.filter.GroupBy]
         done == [k EXCEPT !.pc = "done", !.res = res, !.at = now, !.wrote = stored]
     IN /\ kpi' = [kpi EXCEPT ![p] = KpiBrief(done)]
        /\ kpiLog' = Logged(done)
        /\ stats' = IF stored
                    THEN ApplyWrite(stats, <<k.key, [data |-> json_Marshal(res),
                                                     exp |-> now + cacheTTL]>>)
                    ELSE stats
  /\ UNCHANGED kpirest

\* the caller has the answer
GetKPIs_Return(p) ==
  /\ kpi[p].pc = "done"
  /\ kpi' = [kpi EXCEPT ![p] = NoKpi]
  /\ UNCHANGED <<stats, kpiLog, kpirest>>

\* an order on its way to the customer and time about to enter the day the
\* filters ask about
InitKPI ==
  /\ orders = [o \in OrderIds |-> OrderRow(OrderStatusInDelivery, "c1", 0, "")]
  /\ couriers = [c \in {"c1"} |-> [NewCourierRow EXCEPT !.status = CourierStatusBusy]]
  /\ promos = << >>
  /\ order_items = DOMAIN orders
  /\ reviews = {}
  /\ NoLocks
  /\ IdleProcs
  /\ now = 1
  /\ everDelivered = {}
  /\ usedSeen = [k \in PromoCodes |-> 0]
  /\ LimiterIdle

\* the filters the callers pass: two starts inside one day, the group left
\* out or given, the limits left out
KpiFilters ==
  [From : {2, 3}, To : {3}, GroupBy : {"", "day"}, TopItemsLimit : {0},
   CourierLimit : {0}, IncludePeriods : {FALSE}]

\* GetKPIs called by two handlers while orders are delivered and time passes,
\* with the cache and the database failing or not
NextKPI ==
  \/ \E p \in Workers, filter \in KpiFilters, readErr \in BOOLEAN : GetKPIs(p, filter, readErr)
  \/ \E p \in Workers, failedAt \in 0..3 : GetKPIs_Fetch(p, failedAt)
  \/ \E p \in Workers, stored \in BOOLEAN : GetKPIs_saveToCache(p, stored)
  \/ \E p \in Workers : GetKPIs_Return(p)
  \/ \E p \in CreateWorkers, o \in DOMAIN orders :
       /\ orders[o].status = OrderStatusInDelivery
       /\ UpdateOrderStatus(p, o, OrderStatusDelivered, NilCourier)
  \/ \E p \in CreateWorkers : UpdateOrderStatus_Commit(p)
  \/ \E p \in CreateWorkers : Return(p)
  \/ Tick

SpecKPI == InitKPI /\ [][NextKPI]_vars

\* ------------------------------------------------ GeocodingService.Geocode
\* Coordinates are counted in hundredths of a degree.
geocodeCacheTTL == 1

Addresses == {"Main St 1", "Elm St 2"}

\* fnv.New64a over the address: Sum64 as "%x", Sum64 % 18000 and
\* (Sum64 / 18000) % 36000
Sum64(address) ==
  CASE address = "Main St 1" -> [hex |-> "fb1d08af5a352854", lo |-> 5140, hi |-> 1236]
    [] address = "Elm St 2" -> [hex |-> "4ae2f353240d1010", lo |-> 512, hi |-> 33997]

hashKey(address) == Sum64(address).hex

hashToCoordinates(address) ==
  <<Sum64(address).lo - 9000, Sum64(address).hi - 18000>>

\* what the call of the external provider comes to: coordinates, a failed
\* client.Do, a status other than 200, a position that does not parse
YandexOutcomes == {"ok", "network", "status", "parse"}

\* the position the external provider answers with, as (lat, lon)
YandexPos == <<5576, 3762>>

\* yandexGeocode: (lat, lon, err)
yandexGeocode(address, outcome) ==
  IF outcome = "ok" THEN [lat |-> YandexPos[1], lon |-> YandexPos[2], err |-> FALSE]
  ELSE [lat |-> 0, lon |-> 0, err |-> TRUE]

\* strings.EqualFold(s.cfg.Provider, "yandex") && s.cfg.YandexAPIKey != ""
UsesYandex(cfg) == cfg.Provider \in {"yandex", "Yandex"} /\ cfg.YandexAPIKey # ""

\* the provider step that returns the provider's error
ProviderCoordinates_NoFallback(cfg, address, outcome) ==
  IF UsesYandex(cfg) THEN yandexGeocode(address, outcome)
  ELSE [lat |-> hashToCoordinates(address)[1], lon |-> hashToCoordinates(address)[2],
        err |-> FALSE]

\* the provider step of Geocode: the external provider's coordinates, and
\* the offline ones when it fails or is not configured; err is what is left
\* of the provider's error
ProviderCoordinates(cfg, address, outcome) ==
  IF UsesYandex(cfg) /\ ~yandexGeocode(address, outcome).err
  THEN yandexGeocode(address, outcome)
  ELSE [lat |-> hashToCoordinates(address)[1], lon |-> hashToCoordinates(address)[2],
        err |-> FALSE]

\* s.redis.Get of a geocode key at time t: the coordinates, or <<>>
geoGet(key, t) ==
  IF key \in DOMAIN geocache /\ t < geocache[key].exp THEN geocache[key].data ELSE <<>>

georest ==
  <<svcvars, handlers, app, now, redis, rl, rlcfg, rlhist, middleware, analytics, list>>

\* the calls of Geocode taken so far
GeoCalls ==
  LET RECURSIVE Sum(_)
      Sum(S) == IF S = {} THEN 0
                ELSE LET p == CHOOSE x \in S : TRUE IN geo[p].n + Sum(S \ {p})
  IN Sum(Procs)

\* Geocode up to the cache lookup
Geocode(p, address, readErr) ==
  /\ geo[p].pc = "idle"
  /\ GeoCalls < MaxRequests
  /\ LET g == [NoGeo EXCEPT !.address = address, !.readErr = readErr, !.n = geo[p].n + 1]
     IN IF address = ""
        THEN geo' = [geo EXCEPT ![p] = [g EXCEPT !.pc = "done", !.err = TRUE]]
        ELSE LET key == "geocode:" \o hashKey(address)
                 cached == geoGet(key, now)
             IN IF ~readErr /\ cached # <<>>
                THEN geo' = [geo EXCEPT ![p] =
                               [g EXCEPT !.pc = "done", !.key = key,
                                         !.lat = cached[1], !.lon = cached[2]]]
                ELSE geo' = [geo EXCEPT ![p] = [g EXCEPT !.pc = "provider", !.key = key]]
  /\ UNCHANGED <<geocache, geocfg, georest>>

\* the provider is chosen and, if it is the external one, called
Geocode_Provider(p, outcome) ==
  /\ geo[p].pc = "provider"
  /\ outcome # "" <=> UsesYandex(geocfg)
  /\ LET r == ProviderCoordinates(geocfg, geo[p].address, outcome)
     IN geo' = [geo EXCEPT ![p].outcome = outcome, ![p].lat = r.lat, ![p].lon = r.lon,
                           ![p].err = r.err,
                           ![p].pc = IF r.err THEN "done" ELSE "save"]
  /\ UNCHANGED <<geocache, geocfg, georest>>

\* s.redis.Set with geocodeCacheTTL; a failure is logged
Geocode_Set(p, stored) ==
  /\ geo[p].pc = "save"
  /\ geo' = [geo EXCEPT ![p].pc = "done", ![p].stored = stored]
  /\ geocache' = IF stored
                 THEN ApplyWrite(geocache, <<geo[p].key,
                                             [data |-> <<geo[p].lat, geo[p].lon>>,
                                              exp |-> now + geocodeCacheTTL]>>)
                 ELSE geocache
  /\ UNCHANGED <<geocfg, georest>>

\* the caller has the answer
Geocode_Return(p) ==
  /\ geo[p].pc = "done"
  /\ geo' = [geo EXCEPT ![p] = [NoGeo EXCEPT !.n = geo[p].n]]
  /\ UNCHANGED <<geocache, geocfg, georest>>

\* the service built with one of the configurations
InitGeo ==
  /\ orders = << >>
  /\ couriers = << >>
  /\ promos = << >>
  /\ order_items = DOMAIN orders
  /\ reviews = {}
  /\ NoLocks
  /\ ProcsIdle
  /\ now = 1
  /\ everDelivered = {}
  /\ usedSeen = [k \in PromoCodes |-> 0]
  /\ LimiterIdle
  /\ geocfg \in [Provider : {"offline", "yandex", "Yandex"}, YandexAPIKey : {"", "key"}]

\* Geocode called by two handlers while time passes, with the cache and the
\* external provider failing or not
NextGeo ==
  \/ \E p \in Workers, address \in Addresses \cup {""}, readErr \in BOOLEAN :
       Geocode(p, address, readErr)
  \/ \E p \in Workers, outcome \in YandexOutcomes \cup {""} : Geocode_Provider(p, outcome)
  \/ \E p \in Workers, stored \in BOOLEAN : Geocode_Set(p, stored)
  \/ \E p \in Workers : Geocode_Return(p)
  \/ Tick

SpecGeo == InitGeo /\ [][NextGeo]_vars

\* ------------------------------------------------- OrderHandler.GetOrders
\* strconv.Atoi of a query parameter: the number, or an error for text that
\* is no decimal integer or does not fit an int
Atoi(str) ==
  CASE str = "-1" -> [n |-> -1, err |-> FALSE]
    [] str = "0" -> [n |-> 0, err |-> FALSE]
    [] str = "1" -> [n |-> 1, err |-> FALSE]
    [] str = "+2" -> [n |-> 2, err |-> FALSE]
    [] str = "100" -> [n |-> 100, err |-> FALSE]
    [] str = "101" -> [n |-> 101, err |-> FALSE]
    [] str = "1000" -> [n |-> 1000, err |-> FALSE]
    [] OTHER -> [n |-> 0, err |-> TRUE]

\* the values of ?limit= and ?offset=; "" is the parameter left out
LimitParams ==
  {"", "abc", "-1", "0", "1", "+2", "100", "101", "1000", "99999999999999999999"}
OffsetParams == {"", "-1", "0", "1"}

\* limit := 50; taken from the parameter if it parses and 0 < l <= 100
parseLimit(limitStr) ==
  IF limitStr # "" /\ ~Atoi(limitStr).err /\ Atoi(limitStr).n > 0 /\ Atoi(limitStr).n <= 100
  THEN Atoi(limitStr).n
  ELSE 50

\* offset := 0; taken from the parameter if it parses and o >= 0
parseOffset(offsetStr) ==
  IF offsetStr # "" /\ ~Atoi(offsetStr).err /\ Atoi(offsetStr).n >= 0
  THEN Atoi(offsetStr).n
  ELSE 0

\* the ids of S as ORDER BY created_at DESC returns them: latest first
RECURSIVE Descending(_)
Descending(S) ==
  IF S = {} THEN <<>>
  ELSE LET top == CHOOSE x \in S : \A y \in S : y <= x
       IN <<top>> \o Descending(S \ {top})

\* OrderService.GetOrders: WHERE status and courier_id if given, ORDER BY
\* created_at DESC, LIMIT if limit > 0, OFFSET if offset > 0
GetOrders(status, courierID, limit, offset) ==
  LET S == {o \in DOMAIN orders :
              /\ status # "" => orders[o].status = status
              /\ courierID # NilCourier => orders[o].courier_id = courierID}
      all == Descending(S)
      from == IF offset > 0 THEN offset + 1 ELSE 1
      to == IF limit > 0 /\ from + limit - 1 < Len(all) THEN from + limit - 1 ELSE Len(all)
  IN SubSeq(all, from, to)

listrest ==
  <<svcvars, handlers, app, now, redis, rl, rlcfg, rlhist, middleware, analytics, geocoding>>

\* the requests GetOrders has taken so far
ListCalls == Cardinality({p \in Procs : list[p].pc # "idle"})

\* GetOrders up to the call of the service: the parameters are parsed
OrderHandler_GetOrders(p, statusStr, courierIDStr, limitStr, offsetStr) ==
  /\ list[p].pc = "idle"
  /\ LET r == [NoList EXCEPT !.limitStr = limitStr, !.offsetStr = offsetStr]
     IN IF courierIDStr \notin {"", "c1", "c2", MissingCourier}
        THEN list' = [list EXCEPT ![p] = [r EXCEPT !.pc = "done", !.code = 400]]
        ELSE list' = [list EXCEPT ![p] =
                        [r EXCEPT !.pc = "store", !.status = statusStr,
                                  !.courier = IF courierIDStr = "" THEN NilCourier
                                              ELSE courierIDStr,
                                  !.limit = parseLimit(limitStr),
                                  !.offset = parseOffset(offsetStr)]]
  /\ UNCHANGED listrest

\* h.orderService.GetOrders and the response
OrderHandler_GetOrders_Query(p, ok) ==
  /\ list[p].pc = "store"
  /\ list' = [list EXCEPT ![p].pc = "done",
                          ![p].code = IF ok THEN 200 ELSE 500,
                          ![p].body = IF ok
                                      THEN GetOrders(list[p].status, list[p].courier,
                                                     list[p].limit, list[p].offset)
                                      ELSE <<>>]
  /\ UNCHANGED listrest

\* the response is written; the worker takes the next request
OrderHandler_GetOrders_Return(p) ==
  /\ list[p].pc = "done"
  /\ list' = [list EXCEPT ![p] = NoList]
  /\ UNCHANGED listrest

\* the goroutine that takes the requests to list orders
ListWorkers == {1}

\* GET /api/orders with every combination of the parameters, the courier id
\* well-formed or not, the query failing or not
NextList ==
  \/ \E p \in ListWorkers, statusStr \in {"", OrderStatusCreated},
        courierIDStr \in {"", "c1", "not-a-uuid"},
        limitStr \in LimitParams, offsetStr \in OffsetParams :
       OrderHandler_GetOrders(p, statusStr, courierIDStr, limitStr, offsetStr)
  \/ \E p \in ListWorkers, ok \in BOOLEAN : OrderHandler_GetOrders_Query(p, ok)
  \/ \E p \in ListWorkers : OrderHandler_GetOrders_Return(p)

SpecList == InitAssign /\ [][NextList]_vars

\* --------------------------------------------------- OrderHandler.GetOrder
\* the status a PUT /api/orders/{id}/status for order o has been answered 200
\* with, its cache invalidation done, or "" if there is no such answer yet
AckedStatus(o) ==
  LET A == {q \in Procs : /\ http[q].pc = "done" /\ http[q].op = "status"
                          /\ http[q].code = 200 /\ http[q].order = o
                          /\ ~http[q].cacheErr}
  IN IF A = {} THEN "" ELSE http[CHOOSE q \in A : TRUE].status

\* GetOrder up to the database: h.redisClient.Get; a hit is the answer
OrderHandler_GetOrder(p, o, readErr) ==
  /\ http[p].pc = "idle" /\ pc[p] = "idle"
  /\ LET h == [NoHttp EXCEPT !.op = "get", !.order = o, !.n = http[p].n,
                             !.acked = AckedStatus(o)] IN
       IF ~readErr /\ cache[o] # <<>>
       THEN Respond(p, [h EXCEPT !.status = cache[o][1]], 200)
       ELSE http' = [http EXCEPT ![p] = [h EXCEPT !.pc = "svc"]]
  /\ UNCHANGED <<svcvars, now, published, cache, ratelimit>>

\* h.orderService.GetOrder(orderID): a SELECT outside any transaction
OrderHandler_GetOrder_Load(p, ok) ==
  /\ http[p].pc = "svc" /\ http[p].op = "get"
  /\ IF ~ok THEN Respond(p, http[p], 500)
     ELSE IF http[p].order \notin DOMAIN orders THEN Respond(p, http[p], 404)
     ELSE http' = [http EXCEPT ![p].pc = "cache",
                               ![p].status = orders[http[p].order].status]
  /\ UNCHANGED <<svcvars, now, published, cache, ratelimit>>

\* h.redisClient.Set(cacheKey, orderPtr, defaultCacheTTL): an error is
\* logged; then the answer 200 with the order loaded
OrderHandler_GetOrder_Cache(p, stored) ==
  /\ http[p].pc = "cache" /\ http[p].op = "get"
  /\ cache' = IF stored THEN [cache EXCEPT ![http[p].order] = <<http[p].status>>]
              ELSE cache
  /\ Respond(p, [http[p] EXCEPT !.cacheErr = ~stored], 200)
  /\ UNCHANGED <<svcvars, now, published, ratelimit>>

\* the goroutines that take the GET and the PUT requests
GetWorkers == {1}
PutWorkers == {2}

\* GET /api/orders/{id} served by one handler while another serves
\* PUT /api/orders/{id}/status, the cache and the database failing or not
NextCache ==
  \/ \E p \in GetWorkers, o \in DOMAIN orders \cup MissingOrder, readErr \in BOOLEAN :
       OrderHandler_GetOrder(p, o, readErr)
  \/ \E p \in GetWorkers, ok \in BOOLEAN : OrderHandler_GetOrder_Load(p, ok)
  \/ \E p \in GetWorkers, stored \in BOOLEAN : OrderHandler_GetOrder_Cache(p, stored)
  \/ \E p \in PutWorkers, o \in DOMAIN orders \cup MissingOrder, st \in HandlerStatusInputs,
        found \in BOOLEAN :
       OrderHandler_UpdateOrderStatus(p, o, st, NilCourier, found)
  \/ \E p \in PutWorkers : OrderHandler_UpdateOrderStatus_Call(p)
  \/ \E p \in PutWorkers : UpdateOrderStatus_Commit(p)
  \/ \E p \in PutWorkers : TxFail(p)
  \/ \E p \in PutWorkers : OrderHandler_ServiceError(p)
  \/ \E p \in PutWorkers, delivered \in BOOLEAN :
       OrderHandler_PublishOrderStatusChanged(p, delivered)
  \/ \E p \in PutWorkers, deleted \in BOOLEAN : OrderHandler_InvalidateCache(p, deleted)
  \/ \E p \in Workers : OrderHandler_Return(p)

SpecCache == InitHandler /\ [][NextCache]_vars

\* ------------------------------------------------------------- row locks
\* INSERT INTO reviews, its first row lock: the foreign-key check of
\* courier_id runs before the trigger (AFTER ROW triggers fire in the order
\* of their names, and the constraint's RI_ConstraintTrigger_c_... sorts
\* before trg_update_courier_rating_on_review). It locks the courier row
\* FOR KEY SHARE, which waits only for a FOR UPDATE lock of another
\* transaction
CreateReview_Insert_ForeignKey(p) ==
  /\ pc[p] = "r_insert"
  /\ LET c == call[p].courier IN
       IF c \notin DOMAIN couriers
       THEN Fail(p, call[p], KindInternal, TxFailMsg("r_insert"))
       ELSE /\ lockCourier[c] \in {0, p}
            /\ Goto(p, call[p], "r_trigger")
            /\ UNCHANGED <<tables, locks, pend, history, limiter>>
  /\ UNCHANGED now

\* the same INSERT, its trigger: SELECT ... FROM couriers WHERE id =
\* NEW.courier_id FOR UPDATE waits for every lock another transaction holds
\* on the row, the key-share locks included; then UPDATE couriers
CreateReview_Insert_Trigger(p) ==
  /\ pc[p] = "r_trigger"
  /\ LET o == call[p].order
         c == call[p].courier
     IN /\ lockCourier[c] \in {0, p}
        /\ ~KeyShared(c, p)
        /\ lockCourier' = [lockCourier EXCEPT ![c] = p]
        /\ pend' = [pend EXCEPT
             ![p].review = <<[id |-> NewReviewId, order_id |-> o, courier_id |-> c,
                              rating |-> call[p].rating]>>,
             ![p].courier = <<c, update_courier_rating_on_review(couriers[c],
                                                                call[p].rating)>>]
        /\ Goto(p, call[p], "r_update")
        /\ UNCHANGED <<tables, lockOrder, lockPromo, history, limiter>>
  /\ UNCHANGED now

\* transaction p has reached a statement that needs a row lock which
\* transaction q holds, and stays there until q commits or rolls back
WaitsFor(p, q) ==
  /\ p # q
  /\ LET o == call[p].order
         c == call[p].courier
         k == call[p].promo
     IN \/ /\ pc[p] \in {"a_lock", "r_trigger"}
           /\ c \in DOMAIN couriers
           /\ lockCourier[c] = q \/ (pc[q] = "r_trigger" /\ call[q].courier = c)
        \/ /\ pc[p] = "r_insert"
           /\ c \in DOMAIN couriers
           /\ lockCourier[c] = q
        \/ /\ pc[p] = "a_order"
           /\ o \in DOMAIN orders
           /\ orders[o].status = OrderStatusCreated
           /\ lockOrder[o] = q
        \/ /\ pc[p] \in {"r_lock", "r_update"}
           /\ o \in DOMAIN orders
           /\ lockOrder[o] = q
        \/ /\ pc[p] = "c_promo"
           /\ k \in DOMAIN promos
           /\ lockPromo[k] = q

\* a set of transactions each of which waits for another of the set: none
\* of them can take its next step unless one of them fails
Deadlocked(S) ==
  /\ S # {}
  /\ \A p \in S : \E q \in S : WaitsFor(p, q)

\* two orders the courier c1 may have delivered, the couriers free again,
\* and a promo code without a usage limit
InitLocks ==
  /\ orders \in [AssignOrderIds ->
                   {OrderRow(OrderStatusCreated, NilCourier, 0, ""),
                    OrderRow(OrderStatusDelivered, "c1", 1, "")}]
  /\ couriers = [c \in CourierIds |->
                   [NewCourierRow EXCEPT !.status = CourierStatusAvailable]]
  /\ promos = [k \in PromoCodes |-> PromoRow(0, 0, TRUE, 0)]
  /\ order_items = DOMAIN orders
  /\ reviews = {}
  /\ NoLocks
  /\ IdleProcs
  /\ now = 1
  /\ everDelivered = {o \in DOMAIN orders : orders[o].status = OrderStatusDelivered}
  /\ usedSeen = [k \in PromoCodes |-> 0]
  /\ LimiterIdle

\* the four transactions, running concurrently, each statement a step
NextLocks ==
  \/ \E p \in Procs : CreateOrder(p, TRUE, "SALE")
  \/ \E p \in Procs : CreateOrder_ApplyPromo(p)
  \/ \E p \in Procs : CreateOrder_Insert(p)
  \/ \E p \in Procs : CreateOrder_InsertItems(p)
  \/ \E p \in Procs : CreateOrder_Commit(p)
  \/ \E p \in Procs, o \in AssignOrderIds : UpdateOrderStatus(p, o, OrderStatusAccepted, "c1")
  \/ \E p \in Procs : UpdateOrderStatus_Commit(p)
  \/ \E p \in Procs, o \in AssignOrderIds : CreateReview(p, o, 5)
  \/ \E p \in Procs : CreateReview_SelectOrder(p)
  \/ \E p \in Procs : CreateReview_Insert_ForeignKey(p)
  \/ \E p \in Procs : CreateReview_Insert_Trigger(p)
  \/ \E p \in Procs : CreateReview_UpdateOrder(p)
  \/ \E p \in Procs : CreateReview_Commit(p)
  \/ \E p \in Procs, o \in AssignOrderIds : AssignOrderToCourier(p, o, "c1")
  \/ \E p \in Procs : Assign_SelectCourier(p)
  \/ \E p \in Procs : Assign_UpdateOrder(p)
  \/ \E p \in Procs : Assign_UpdateCourier(p)
  \/ \E p \in Procs : Assign_Commit(p)
  \/ \E p \in Procs : TxFail(p)
  \/ \E p \in Procs : Return(p)

SpecLocks == InitLocks /\ [][NextLocks]_vars

\* ------------------------------------------- RateLimiter, several clients
\* NewRateLimiter: prefix := cfg.KeyPrefix, "ratelimit" when that is empty
prefix == "ratelimit"

\* strings.ReplaceAll(key, ":", "_")
ReplaceAll(key, old, new) == [i \in DOMAIN key |-> IF key[i] = old THEN new ELSE key[i]]

\* RateLimiter.makeKey: fmt.Sprintf("%s:%s", r.prefix, safeKey)
makeKey(key) == <<prefix, ":">> \o ReplaceAll(key, ":", "_")

\* the keys of the store the limiter can touch
RedisKeys == {makeKey(a) : a \in ClientIds}

\* Allow(ctx, key) called with a client identifier: redisKey := r.makeKey(key)
\* is the key every later step of the call works on
RateLimiter_Allow(p, key) ==
  /\ Allow(p, makeKey(key))
  /\ rlclient' = [who |-> [rlclient.who EXCEPT ![p] = key],
                  asked |-> [rlclient.asked EXCEPT ![key] =
                               IF @ < MaxCount THEN @ + 1 ELSE @]]
  /\ UNCHANGED <<mwLimiter, mw>>

\* the caller has the result
RateLimiter_Allow_Return(p) ==
  /\ Allow_Return(p)
  /\ rlclient' = [rlclient EXCEPT !.who[p] = <<>>]
  /\ UNCHANGED <<mwLimiter, mw>>

\* a limiter built from any configuration, over an empty store, called
\* concurrently for several client identifiers within one second
InitClients ==
  /\ orders = << >>
  /\ couriers = << >>
  /\ promos = << >>
  /\ order_items = DOMAIN orders
  /\ reviews = {}
  /\ NoLocks
  /\ IdleProcs
  /\ now = 1
  /\ everDelivered = {}
  /\ usedSeen = [k \in PromoCodes |-> 0]
  /\ redis = [k \in RedisKeys |-> NoKey]
  /\ rl = [p \in Procs |-> NoAllow]
  /\ rlcfg \in {NewRateLimiter(TRUE, r, MaxWindow) : r \in 0..MaxLimit}
  /\ rlhist = [k \in RedisKeys |-> NoHist]
  /\ mwLimiter = TRUE
  /\ mw = [p \in Procs |-> NoRequest]
  /\ rlclient = NoClients

NextClients ==
  \/ \E p \in AllowWorkers, a \in ClientIds : RateLimiter_Allow(p, a)
  \/ \E p \in AllowWorkers : Allow_Incr(p)
  \/ \E p \in AllowWorkers, applied \in BOOLEAN : Allow_IncrFail(p, applied)
  \/ \E p \in AllowWorkers, ok \in BOOLEAN : Allow_Expire(p, ok)
  \/ \E p \in AllowWorkers, ok \in BOOLEAN : Allow_TTL(p, ok)
  \/ \E p \in AllowWorkers : RateLimiter_Allow_Return(p)

SpecClients == InitClients /\ [][NextClients]_vars

\* ------------------------------------------- handlers during shutdown
\* the components a request handler works with: the producer, the
\* key/value client and the database (NewOrderHandler and the services are
\* built over them)
HandlerComponents == {3, 4, 5}

\* a handler that is in flight calls component i (publishes an event, reads
\* or writes the cache, runs a statement), in whatever state main has
\* brought the component to; handlers run until the process exits
Handler_Uses(i) ==
  /\ app.pc \notin {"exited", "fatal"}
  /\ app.active > 0
  /\ app' = [app EXCEPT !.used = @ \cup {<<i, app.state[i]>>}]
  /\ UNCHANGED mainrest

\* the server process from start to exit, its handlers at work
NextShutdown ==
  \/ NextMain
  \/ \E i \in HandlerComponents : Handler_Uses(i)

SpecShutdown == Init /\ [][NextShutdown]_vars

\* ------------------------------------------------------------------ claims
\* C1: when several AutoAssignCourier calls run concurrently on one order in
\* status created with at least one available courier of known location,
\* then once all have returned exactly one has committed, every other one
\* has failed with a conflict, and the courier that received the order is busy.
C1_ExactlyOneOthersConflict ==
  (\A p \in Procs : pc[p] = "done") =>
    /\ Cardinality({p \in Procs : result[p].kind = KindOK}) = 1
    /\ \A p \in Procs : result[p].kind # KindOK => result[p].kind = KindConflict
    /\ \A p \in Procs : result[p].kind = KindOK =>
         couriers[call[p].courier].status = CourierStatusBusy

\* C2: of the AssignOrderToCourier transactions that target the same
\* available courier with different orders at most one commits; once one has
\* committed every other one returns a conflict and the order it named, if no
\* further call names it, is still created with no courier.
C2_OneAssignmentPerCourier ==
  \A p \in Procs, q \in Procs :
    (/\ p # q
     /\ pc[p] = "done" /\ pc[q] = "done"
     /\ call[p].courier = call[q].courier
     /\ call[p].courier \in DOMAIN couriers
     /\ call[p].order \in DOMAIN orders /\ call[q].order \in DOMAIN orders
     /\ call[p].order # call[q].order
     /\ result[p].kind = KindOK)
    => /\ result[q].kind = KindConflict
       /\ (\A r \in Procs \ {q} : call[r].order # call[q].order)
            => orders[call[q].order] = OrderRow(OrderStatusCreated, NilCourier, 0, "")

\* C2 witness: two assignments of different orders to one courier have
\* returned, one committed and the other was refused as a conflict.
C2_Witness ==
  \E p \in Procs, q \in Procs :
    /\ p # q /\ pc[p] = "done" /\ pc[q] = "done"
    /\ call[p].courier = call[q].courier
    /\ call[p].order \in DOMAIN orders /\ call[q].order \in DOMAIN orders
    /\ call[p].order # call[q].order
    /\ result[p].kind = KindOK
    /\ result[q].msg = "courier is not available"
    /\ orders[call[p].order].courier_id = call[p].courier
    /\ orders[call[q].order].status = OrderStatusCreated

AssignPositions == {"a_lock", "a_order", "a_courier", "a_commit"}

\* C3: a step of an assignment either is its commit, which turns the order
\* from created to accepted with the courier and the courier from available
\* to busy in the same step, or leaves the committed orders and couriers as
\* they were; an assignment that returns an error has dropped its writes and
\* holds no lock.
C3_AssignAllOrNothing ==
  [][\A p \in Procs :
       (pc[p] \in AssignPositions /\ pc'[p] # pc[p]) =>
         IF pc[p] = "a_commit" /\ (pc'[p] = "aa_get" \/ result'[p].kind = KindOK)
         THEN LET o == call[p].order
                  c == call[p].courier
              IN /\ orders[o].status = OrderStatusCreated
                 /\ couriers[c].status = CourierStatusAvailable
                 /\ orders' = [orders EXCEPT ![o].status = OrderStatusAccepted,
                                             ![o].courier_id = c]
                 /\ couriers' = [couriers EXCEPT ![c].status = CourierStatusBusy]
         ELSE /\ orders' = orders
              /\ couriers' = couriers
              /\ pc'[p] = "done" =>
                   /\ result'[p].kind # KindOK
                   /\ pend'[p] = NoPend
                   /\ \A x \in DOMAIN lockOrder : lockOrder'[x] # p
                   /\ \A x \in DOMAIN lockCourier : lockCourier'[x] # p]_vars

\* C3 witness: an assignment failed at its order update, after it had locked
\* an available courier; the courier is available and unlocked.
C3_Witness ==
  \E p \in Procs :
    /\ pc[p] = "done"
    /\ call[p].op = "assign"
    /\ result[p].msg = "order not found or already assigned"
    /\ call[p].order \in DOMAIN orders
    /\ couriers[call[p].courier].status = CourierStatusAvailable
    /\ lockCourier[call[p].courier] = 0

\* C4: whenever no transaction is in flight, a courier is busy exactly when
\* an order in accepted, preparing, ready or in_delivery carries its id.
C4_BusyIffActiveOrder ==
  (\A p \in Procs : ~InTx(p)) =>
    \A c \in DOMAIN couriers :
      (couriers[c].status = CourierStatusBusy) <=>
        (\E o \in DOMAIN orders :
           orders[o].courier_id = c /\ orders[o].status \in ActiveStatuses)

\* the transition table as it is declared
DeclaredEdges ==
  {<<"created", "accepted">>, <<"created", "cancelled">>,
   <<"accepted", "preparing">>, <<"accepted", "cancelled">>,
   <<"preparing", "ready">>, <<"preparing", "cancelled">>,
   <<"ready", "in_delivery">>, <<"ready", "cancelled">>,
   <<"in_delivery", "delivered">>, <<"in_delivery", "cancelled">>}

\* C5: an order's committed status is always one of the seven statuses, and
\* every change of it in the committed table is an edge of the transition
\* table (or leaves it the same), whatever calls run concurrently on the order.
C5_StatusFollowsTable ==
  /\ [](\A o \in DOMAIN orders : orders[o].status \in
          {"created", "accepted", "preparing", "ready", "in_delivery", "delivered",
           "cancelled"})
  /\ [][\A o \in DOMAIN orders \cap DOMAIN orders' :
          \/ orders'[o].status = orders[o].status
          \/ <<orders[o].status, orders'[o].status>> \in DeclaredEdges]_vars

\* C5 witness: two status updates of one order have returned, one committed
\* and one was refused, and the order has moved along the table to cancelled.
C5_Witness ==
  \E p \in Procs, q \in Procs :
    /\ p # q /\ pc[p] = "done" /\ pc[q] = "done"
    /\ call[p].op = "order_status" /\ call[q].op = "order_status"
    /\ call[p].order = call[q].order
    /\ call[p].order \in DOMAIN orders
    /\ result[p].kind = KindOK /\ result[q].kind = KindConflict
    /\ orders[call[p].order].status = OrderStatusCancelled
    /\ orders[call[p].order].courier_id # NilCourier

C7_DeliveredAtIffEverDelivered ==
  /\ [](\A o \in DOMAIN orders : (orders[o].delivered_at # 0) <=> (o \in everDelivered))
  /\ [][\A o \in DOMAIN orders \cap DOMAIN orders' :
          orders[o].delivered_at # 0 => orders'[o].delivered_at # 0]_vars

\* C7 witness: an order delivered at an earlier time, with a later status
\* update of it committed.
C7_Witness ==
  \E o \in everDelivered, p \in Procs :
    /\ orders[o].delivered_at # 0
    /\ orders[o].delivered_at < now
    /\ pc[p] = "done" /\ call[p].op = "order_status" /\ call[p].order = o
    /\ result[p].kind = KindOK

PromoOrders(k) == {o \in DOMAIN orders : orders[o].promo_code = k}

\* C9: while nothing but order creation touches a promo code, its used_count
\* is the number of committed orders that carry it and, when max_uses is
\* positive, never exceeds max_uses; a CreateOrder that finds the limit
\* reached on an active, unexpired code returns a conflict and inserts no order.
C9_PromoLimit ==
  /\ [](\A k \in DOMAIN promos :
          /\ promos[k].used_count = Cardinality(PromoOrders(k))
          /\ promos[k].max_uses > 0 => Cardinality(PromoOrders(k)) <= promos[k].max_uses)
  /\ [][\A p \in Procs :
          (/\ CreateOrder_ApplyPromo(p)
           /\ call[p].promo \in DOMAIN promos
           /\ promos[call[p].promo].active
           /\ ~(promos[call[p].promo].expires_at # 0 /\ promos[call[p].promo].expires_at < now)
           /\ promos[call[p].promo].max_uses > 0
           /\ promos[call[p].promo].used_count >= promos[call[p].promo].max_uses)
          => /\ pc'[p] = "done"
             /\ result'[p].kind = KindConflict
             /\ result'[p].msg = "promo code usage limit reached"
             /\ pend'[p] = NoPend
             /\ orders' = orders
             /\ promos' = promos]_vars

\* C9 witness: two orders raced for the last use of a code; one committed
\* and the other was refused at the limit.
C9_Witness ==
  \E k \in DOMAIN promos, p \in Procs, q \in Procs :
    /\ promos[k].max_uses > 0
    /\ promos[k].used_count = promos[k].max_uses
    /\ Cardinality(PromoOrders(k)) = promos[k].max_uses
    /\ p # q /\ pc[p] = "done" /\ pc[q] = "done"
    /\ call[p].promo = k /\ call[q].promo = k
    /\ result[p].kind = KindOK
    /\ result[q].msg = "promo code usage limit reached"

\* C10: for every promo code with a positive max_uses, used_count never
\* exceeds max_uses, UpdatePromoCode calls that change max_uses included.
C10_UsedWithinMax ==
  \A k \in DOMAIN promos :
    promos[k].max_uses > 0 => promos[k].used_count <= promos[k].max_uses

CreatePositions == {"c_promo", "c_insert", "c_items", "c_commit"}

\* C11: a step of a CreateOrder transaction leaves the committed orders,
\* order items and promo codes as they are unless it is the commit that
\* returns success; a CreateOrder that returns an error after its transaction
\* began has dropped its writes and holds no lock.
C11_CreateOrderAllOrNothing ==
  [][\A p \in Procs :
       (pc[p] \in CreatePositions /\ pc'[p] # pc[p]
        /\ ~(pc[p] = "c_commit" /\ result'[p].kind = KindOK))
       => /\ orders' = orders
          /\ order_items' = order_items
          /\ promos' = promos
          /\ pc'[p] = "done" =>
               /\ result'[p].kind # KindOK
               /\ pend'[p] = NoPend
               /\ \A k \in DOMAIN lockPromo : lockPromo'[k] # p]_vars

\* C11 witness: a CreateOrder that had consumed a promo code and inserted
\* its order and items failed at the commit: no order, no item, used_count 0.
C11_Witness ==
  \E p \in Procs :
    /\ pc[p] = "done"
    /\ call[p].op = "create"
    /\ call[p].promo \in DOMAIN promos
    /\ result[p].msg = "failed to commit transaction"
    /\ DOMAIN orders = {}
    /\ order_items = {}
    /\ promos[call[p].promo].used_count = 0
    /\ lockPromo[call[p].promo] = 0

\* C12: a promo code's committed used_count is never below a value it has
\* held before, across CreatePromoCode, UpdatePromoCode, DeletePromoCode and
\* CreateOrder on the code.
C12_UsedCountMonotonic ==
  \A k \in DOMAIN promos : promos[k].used_count >= usedSeen[k]

\* C13: ApplyPromoWithTx accepts a promo code, incrementing used_count,
\* exactly when it is active, not expired and max_uses = 0 or used_count <
\* max_uses; otherwise it returns a conflict naming the reason and increments
\* nothing.
C13_AcceptsIffConsumable ==
  [][\A p \in Procs :
       (/\ pc[p] = "c_promo"
        /\ call[p].promo \in DOMAIN promos
        /\ CreateOrder_ApplyPromo(p))
       => LET row == promos[call[p].promo] IN
            IF /\ row.active
               /\ ~(row.expires_at # 0 /\ row.expires_at < now)
               /\ (row.max_uses = 0 \/ row.used_count < row.max_uses)
            THEN /\ pc'[p] = "c_insert"
                 /\ pend'[p].promo =
                      <<call[p].promo, [row EXCEPT !.used_count = row.used_count + 1]>>
            ELSE /\ pc'[p] = "done"
                 /\ result'[p].kind = KindConflict
                 /\ result'[p].msg \in {"promo code is inactive", "promo code expired",
                                        "promo code usage limit reached"}
                 /\ pend'[p] = NoPend]_vars

\* the committed review rows of an order, and of a courier
ReviewsOfOrder(o) == {r \in reviews : r.order_id = o}
ReviewsOfCourier(c) == {r \in reviews : r.courier_id = c}

\* the handlers inside CreateReview, and those of them past the order's lock
ReviewPositions == {"r_lock", "r_insert", "r_update", "r_commit"}
Reviewing(o) ==
  {p \in Procs : pc[p] \in {"r_insert", "r_update", "r_commit"} /\ call[p].order = o}

\* C14: an order never has more than one review row; of the CreateReview
\* calls running concurrently for one delivered order only one at a time is
\* past the order's lock, and a call that finds the order already rated
\* goes no further and returns the conflict "review already exists for this
\* order" (or the error of a failing statement).
C14_OneReviewPerOrder ==
  [][/\ \A o \in DOMAIN orders' : Cardinality(ReviewsOfOrder(o)') <= 1
     /\ \A o \in DOMAIN orders' : Cardinality(Reviewing(o)') <= 1
     /\ \A p \in Procs :
          (/\ pc[p] = "r_lock"
           /\ pc'[p] # "r_lock"
           /\ call[p].order \in DOMAIN orders
           /\ orders[call[p].order].courier_id # NilCourier
           /\ orders[call[p].order].status = OrderStatusDelivered
           /\ orders[call[p].order].rating # 0)
          => /\ pc'[p] = "done"
             /\ \/ result'[p].kind = KindInternal
                \/ /\ result'[p].kind = KindConflict
                   /\ result'[p].msg = "review already exists for this order"]_vars

\* C14 witness: two calls for the same order have returned, one with the
\* review committed and the other with the conflict
C14_Witness ==
  \E p, q \in Procs : \E o \in DOMAIN orders :
    /\ pc[p] = "done" /\ call[p].op = "review" /\ call[p].order = o
    /\ result[p].kind = KindOK
    /\ pc[q] = "done" /\ call[q].op = "review" /\ call[q].order = o
    /\ result[q].kind = KindConflict
    /\ result[q].msg = "review already exists for this order"
    /\ Cardinality(ReviewsOfOrder(o)) = 1

\* C15: whenever no CreateReview transaction is in flight, every courier's
\* total_reviews is the number of committed review rows with its courier_id.
C15_TotalReviewsCountsRows ==
  (\A p \in Procs : pc[p] \notin ReviewPositions)
  => \A c \in DOMAIN couriers :
       couriers[c].total_reviews = Cardinality(ReviewsOfCourier(c))

\* C15 witness: two calls for different orders of one courier have both
\* committed, and the courier has two reviews
C15_Witness ==
  \E c \in DOMAIN couriers :
    /\ \A p \in Workers :
         /\ pc[p] = "done" /\ call[p].op = "review" /\ result[p].kind = KindOK
         /\ orders[call[p].order].courier_id = c
    /\ \E p, q \in Workers : call[p].order # call[q].order
    /\ couriers[c].total_reviews = 2
    /\ Cardinality(ReviewsOfCourier(c)) = 2

\* C16: a CreateReview call that reads an order which is not delivered, has
\* no courier or already has a rating returns an error and leaves the
\* reviews, the orders and the couriers as they were, with nothing pending.
C16_IneligibleReviewChangesNothing ==
  [][\A p \in Procs :
       (/\ pc[p] = "r_lock"
        /\ pc'[p] # "r_lock"
        /\ call[p].order \in DOMAIN orders
        /\ \/ orders[call[p].order].status # OrderStatusDelivered
           \/ orders[call[p].order].courier_id = NilCourier
           \/ orders[call[p].order].rating # 0)
       => /\ pc'[p] = "done"
          /\ result'[p].kind \in {KindConflict, KindInternal}
          /\ pend'[p] = NoPend
          /\ UNCHANGED <<orders, reviews, couriers>>]_vars

\* C16 witness: a call for an order that is not delivered has returned the
\* conflict, and there is no review
C16_Witness ==
  \E p \in Procs :
    /\ pc[p] = "done" /\ call[p].op = "review"
    /\ result[p].kind = KindConflict
    /\ result[p].msg = "order is not delivered yet"
    /\ orders[call[p].order].status # OrderStatusDelivered
    /\ orders[call[p].order].rating = 0
    /\ reviews = {}
    /\ \A c \in DOMAIN couriers : couriers[c].total_reviews = 0

\* C17: an order whose courier_id is unset has no rating.
C17_NoCourierNoRating ==
  \A o \in DOMAIN orders : orders[o].courier_id = NilCourier => orders[o].rating = 0

\* C17 witness: a review of a delivered order without courier was refused,
\* while another order has its rating
C17_Witness ==
  \E p \in Procs : \E o \in DOMAIN orders :
    /\ pc[p] = "done" /\ call[p].op = "review"
    /\ result[p].kind = KindConflict
    /\ result[p].msg = "order has no assigned courier"
    /\ orders[call[p].order].status = OrderStatusDelivered
    /\ orders[call[p].order].courier_id = NilCourier
    /\ orders[call[p].order].rating = 0
    /\ orders[o].rating # 0

\* C18: with an enabled limiter, of the requests counted during one life of
\* a key's counter (which covers the window of W seconds that its first
\* request opened) at most limit are answered allowed = true.
C18_AtMostLimitAllowed ==
  rlcfg.enabled =>
    \A k \in RateKeys : \A i \in DOMAIN rlhist[k].granted :
      rlhist[k].granted[i] <= rlcfg.limit

\* C18 witness: two concurrent calls counted in the same life of the counter
\* have returned, one allowed and one refused, and the limit is used up
C18_Witness ==
  /\ rlcfg.enabled
  /\ \E p, q \in Procs :
       /\ rl[p].pc = "done" /\ rl[q].pc = "done"
       /\ ~rl[p].err /\ ~rl[q].err
       /\ rl[p].key = rl[q].key /\ rl[p].life = rl[q].life
       /\ rl[p].allowed /\ ~rl[q].allowed
       /\ rlhist[rl[p].key].granted[rl[p].life] = rlcfg.limit

\* C19: the first request counted once the window of W seconds opened by the
\* key's first counted request is over is answered allowed = true.
C19_AllowedAfterWindow ==
  \A p \in Procs :
    (rlcfg.enabled /\ rl[p].pc = "done" /\ ~rl[p].err /\ rl[p].fresh)
    => rl[p].allowed

\* C20: with an enabled limiter, the k-th request counted in one life of a
\* key's counter is answered allowed = true exactly when k <= limit, with
\* remaining = max(0, limit - k).
C20_KthAllowedIffWithinLimit ==
  \A p \in Procs :
    (rlcfg.enabled /\ rl[p].pc = "done" /\ ~rl[p].err)
    => /\ rl[p].allowed <=> rl[p].nth <= rlcfg.limit
       /\ rl[p].remaining =
            (IF rlcfg.limit - rl[p].nth > 0 THEN rlcfg.limit - rl[p].nth ELSE 0)

\* C20 witness: with limit 2 the first request has returned allowed with
\* remaining 1 and the third refused with remaining 0
C20_Witness ==
  /\ rlcfg.enabled /\ rlcfg.limit = 2
  /\ \E p, q \in Procs :
       /\ rl[p].pc = "done" /\ ~rl[p].err /\ rl[p].nth = 1
       /\ rl[p].allowed /\ rl[p].remaining = 1
       /\ rl[q].pc = "done" /\ ~rl[q].err /\ rl[q].nth = 3
       /\ ~rl[q].allowed /\ rl[q].remaining = 0
       /\ rl[p].key = rl[q].key /\ rl[p].life = rl[q].life

\* C21: RateLimitMiddleware runs the wrapped handler exactly when there is
\* no limiter, the limiter is disabled, or Allow returned allowed = true
\* without error; when Allow refuses it answers 429 and when Allow fails it
\* answers 500, the wrapped handler not run.
C21_MiddlewareOutcome ==
  [][\A p \in Procs :
       (mw[p].pc # "done" /\ mw'[p].pc = "done")
       => /\ mw[p].pc = "idle" => (~mwLimiter \/ ~rlcfg.enabled) /\ mw'[p].next = 1
          /\ mw[p].pc = "allow" =>
               /\ rl[p].pc = "done"
               /\ mw'[p].next = (IF ~rl[p].err /\ rl[p].allowed THEN 1 ELSE 0)
               /\ rl[p].err => mw'[p].status = 500
               /\ (~rl[p].err /\ ~rl[p].allowed) => mw'[p].status = 429
          /\ (mw[p].pc = "idle" /\ mwLimiter /\ rlcfg.enabled) => mw'[p].pc = "allow"]_vars

\* C21 witness: of two requests one was refused with 429 and the other failed
\* with 500, the wrapped handler run for neither
C21_Witness ==
  \E p, q \in Procs :
    /\ mw[p].pc = "done" /\ mw[p].status = 429 /\ mw[p].next = 0
    /\ mw[q].pc = "done" /\ mw[q].status = 500 /\ mw[q].next = 0

\* the positions of a handler inside Usage
UsagePositions == {"get", "uttl", "udone"}

\* C22: a step of a Usage call leaves every key's counter and TTL as they
\* were, so that the Allow calls it runs among still answer the k-th counted
\* request by k; and Usage of a key that has no counter returns 0, limit and
\* no reset time.
C22_UsageReadsOnly ==
  [][/\ \A p \in Procs :
          (rl'[p] # rl[p] /\ (rl[p].pc \in UsagePositions \/ rl'[p].pc \in UsagePositions))
          => /\ UNCHANGED <<redis, rlhist>>
             /\ (rl[p].pc = "get" /\ ~Live(rl[p].key))
                => /\ rl'[p].pc = "udone"
                   /\ rl'[p].used = 0
                   /\ rl'[p].remaining = rlcfg.limit
                   /\ ~rl'[p].hasReset
     /\ \A p \in Procs :
          (rlcfg.enabled /\ rl'[p].pc = "done" /\ ~rl'[p].err)
          => (rl'[p].allowed <=> rl'[p].nth <= rlcfg.limit)]_vars

\* C22 witness: a Usage call has returned 2 used and 0 remaining of limit 2
\* with a reset time, while an Allow call counted third in the same life of
\* the counter has been refused
C22_Witness ==
  \E p, q \in Procs :
    /\ rlcfg.enabled /\ rlcfg.limit = 2
    /\ rl[p].pc = "udone" /\ rl[p].used = 2 /\ rl[p].remaining = 0 /\ rl[p].hasReset
    /\ rl[q].pc = "done" /\ ~rl[q].err /\ rl[q].nth = 3 /\ ~rl[q].allowed

\* the position in the GetAvailableCouriers list of a courier
ListIndex(c) == CHOOSE i \in 1..Len(CourierList) : CourierList[i] = c

\* C23: the courier AutoAssignCourier goes on to assign is an available
\* courier with both coordinates whose TotalScore no other such courier
\* exceeds, and every such courier earlier in the GetAvailableCouriers list
\* has a strictly smaller TotalScore.
C23_GreatestScoreFirstOnTie ==
  [][\A p \in Procs :
       (pc[p] = "aa_list" /\ pc'[p] = "a_lock") =>
         LET lat == call[p].lat[1]
             lon == call[p].lon[1]
             known == {c \in DOMAIN couriers :
                         /\ couriers[c].status = CourierStatusAvailable
                         /\ couriers[c].current_lat # <<>>
                         /\ couriers[c].current_lon # <<>>}
             chosen == call'[p].courier
         IN /\ chosen \in known
            /\ \A c \in known :
                 /\ calculateCourierScore(c, lat, lon) <=
                      calculateCourierScore(chosen, lat, lon)
                 /\ ListIndex(c) < ListIndex(chosen) =>
                      calculateCourierScore(c, lat, lon) <
                        calculateCourierScore(chosen, lat, lon)]_vars

\* C23 witness: two available couriers of known location had the same
\* TotalScore and the call holds the first of the list, about to assign it.
C23_Witness ==
  \E p \in Procs :
    /\ pc[p] = "a_lock" /\ call[p].op = "auto"
    /\ call[p].courier = CourierList[1]
    /\ \A c \in CourierIds :
         /\ couriers[c].status = CourierStatusAvailable
         /\ couriers[c].current_lat # <<>> /\ couriers[c].current_lon # <<>>
    /\ calculateCourierScore(CourierList[1], call[p].lat[1], call[p].lon[1]) =
         calculateCourierScore(CourierList[2], call[p].lat[1], call[p].lon[1])

\* C24: an AutoAssignCourier call that reads an order not in status created
\* or already carrying a courier, or that finds no available courier with
\* both latitude and longitude, returns an error at that step without
\* entering AssignOrderToCourier: it holds no write and no lock, and the
\* committed orders and couriers are as they were.
C24_IneligibleAutoAssignChangesNothing ==
  [][\A p \in Procs :
       LET o == call'[p].order
           refusedOrder ==
             /\ pc[p] = "idle" /\ call'[p].op = "auto"
             /\ o \in DOMAIN orders
             /\ (orders[o].status # OrderStatusCreated \/ orders[o].courier_id # NilCourier)
           noCandidate ==
             /\ pc[p] = "aa_list" /\ pc'[p] # "aa_list"
             /\ ~ \E c \in DOMAIN couriers :
                    /\ couriers[c].status = CourierStatusAvailable
                    /\ couriers[c].current_lat # <<>>
                    /\ couriers[c].current_lon # <<>>
       IN (refusedOrder \/ noCandidate) =>
            /\ pc'[p] = "done"
            /\ result'[p].kind # KindOK
            /\ pend'[p] = NoPend
            /\ UNCHANGED <<orders, couriers, locks>>]_vars

\* C24 witness: one call was refused because the order, still created,
\* already had a courier, and another because the only available courier
\* had reported no location.
C24_Witness ==
  \E p, q \in Procs :
    /\ pc[p] = "done" /\ call[p].op = "auto"
    /\ result[p].msg = "order already has assigned courier"
    /\ pc[q] = "done" /\ call[q].op = "auto"
    /\ result[q].msg = "no couriers with known location available"
    /\ \E c \in DOMAIN couriers : couriers[c].status = CourierStatusAvailable

\* the errors AssignOrderToCourier raises as conflicts
AssignConflicts == {"courier is not available", "order not found or already assigned"}

\* C25: when the AssignOrderToCourier run by an AutoAssignCourier call is
\* refused as a conflict, the call returns at that step (no second attempt,
\* no other candidate) and the error it returns is the conflict error that
\* AssignOrderToCourier raised, kind and message.
C25_ConflictSurfacesUntransformed ==
  [][\A p \in Procs :
       (/\ call[p].op = "auto"
        /\ pc[p] \in AssignPositions /\ pc'[p] # pc[p]
        /\ result'[p].kind = KindConflict)
       => /\ pc'[p] = "done"
          /\ call'[p].courier = call[p].courier
          /\ result'[p].msg \in AssignConflicts]_vars

\* C25: when the AssignOrderToCourier run by an AutoAssignCourier call is
\* refused as a conflict, the call returns at that step with an error of
\* kind conflict whose message is the one AssignOrderToCourier raised behind
\* the prefix "failed to assign order to courier: ", and it neither retries
\* nor tries another candidate.
C25_ConflictSurfacesWrapped ==
  [][\A p \in Procs :
       (/\ call[p].op = "auto"
        /\ pc[p] \in AssignPositions /\ pc'[p] # pc[p]
        /\ pc'[p] # "aa_get" /\ pc'[p] \notin AssignPositions)
       => /\ pc'[p] = "done"
          /\ call'[p].courier = call[p].courier
          /\ UNCHANGED <<orders, couriers>>
          /\ result'[p].kind = KindConflict =>
               \E m \in AssignConflicts :
                 result'[p].msg = "failed to assign order to courier: " \o m]_vars

\* C25 witness: of two concurrent calls one has assigned the order and the
\* other, which had chosen the same courier, has returned the conflict of
\* the courier check.
C25_Witness ==
  \E p, q \in Procs :
    /\ pc[p] = "done" /\ call[p].op = "auto" /\ result[p].kind = KindOK
    /\ pc[q] = "done" /\ call[q].op = "auto" /\ result[q].kind = KindConflict
    /\ call[q].courier = call[p].courier

\* C26: an AutoAssignCourier call that has returned without error has
\* returned the chosen courier with status busy, whatever UpdateCourierStatus
\* calls ran beside it.
C26_ReturnedCourierIsBusy ==
  \A p \in Procs :
    (pc[p] = "done" /\ call[p].op = "auto" /\ result[p].kind = KindOK)
    => result[p].courierStatus = CourierStatusBusy

\* C27: an event is published only by a request whose service call has
\* returned without error, its transaction closed: an order.created event
\* names an order whose row is committed, an order.status_changed event a
\* status change that the request itself committed; a request whose call
\* failed or was rolled back publishes nothing.
C27_EventsOnlyAfterCommit ==
  [][published' # published =>
       \E p \in Procs :
         LET e == published'[Len(published')] IN
         /\ http'[p] # http[p]
         /\ http[p].pc = "svc" /\ pc[p] = "done" /\ result[p].kind = KindOK
         /\ pend[p] = NoPend
         /\ \A o \in DOMAIN lockOrder : lockOrder[o] # p
         /\ published' = Append(published, e)
         /\ e.order = call[p].order
         /\ IF http[p].op = "create"
            THEN /\ e.type = "order.created"
                 /\ e.order \in DOMAIN orders
            ELSE /\ e.type = "order.status_changed"
                 /\ e.new = http[p].status
                 /\ \E i \in DOMAIN commitLog :
                      /\ commitLog[i].req = <<p, http[p].n>>
                      /\ commitLog[i].order = e.order
                      /\ commitLog[i].new = e.new]_vars

\* C27 witness: one status request was answered 200 and its event is the
\* only one published; the other's transaction failed and was answered 500.
C27_Witness ==
  \E p, q \in Procs :
    /\ http[p].pc = "done" /\ http[p].op = "status" /\ http[p].code = 200
    /\ Len(published) = 1 /\ published[1].req = <<p, http[p].n>>
    /\ http[q].pc = "done" /\ http[q].op = "status" /\ http[q].code = 500
    /\ result[q].kind = KindInternal

\* C28: once the service call of a request has committed, the steps that
\* publish the event and write or invalidate the cache entry, failing or
\* not, leave the committed tables as they are and end in the success
\* response: 201 for CreateOrder, 200 for UpdateOrderStatus.
C28_SideEffectFailuresKeepOutcome ==
  [][\A p \in Procs :
       (/\ http'[p] # http[p]
        /\ \/ http[p].pc = "svc" /\ pc[p] = "done" /\ result[p].kind = KindOK
           \/ http[p].pc \in {"cache", "auto"})
       => /\ UNCHANGED tables
          /\ http'[p].pc = "done" =>
               http'[p].code = IF http[p].op = "create" THEN 201 ELSE 200]_vars

\* C28 witness: a status request whose event was not delivered and whose
\* cache key was not deleted was answered 200, the order in the new status.
C28_Witness ==
  \E p \in Procs :
    /\ http[p].pc = "done" /\ http[p].op = "status" /\ http[p].code = 200
    /\ http[p].pubErr /\ http[p].cacheErr
    /\ published = <<>>
    /\ orders[http[p].order].status = http[p].status

\* the order.status_changed events of an order, as published
StatusEvents(o) ==
  SelectSeq(published, LAMBDA e : e.type = "order.status_changed" /\ e.order = o)

\* the place in the commit order of the status change a request made
CommitIndex(req) == CHOOSE i \in DOMAIN commitLog : commitLog[i].req = req

\* C29: for each order the order.status_changed events are published in
\* the order in which their status changes committed, and each carries the
\* old and new status of the change that its request committed.
C29_EventsFollowCommitOrder ==
  \A o \in DOMAIN orders :
    LET ev == StatusEvents(o) IN
      /\ \A i \in DOMAIN ev :
           /\ commitLog[CommitIndex(ev[i].req)].old = ev[i].old
           /\ commitLog[CommitIndex(ev[i].req)].new = ev[i].new
      /\ \A i, k \in DOMAIN ev :
           i < k => CommitIndex(ev[i].req) < CommitIndex(ev[k].req)

\* C30: on shutdown main stops the consumer, then shuts the HTTP server
\* down, then closes the producer, the cache client and the database: the
\* call on a component has begun only when the call on every component
\* before it in that order has returned, and at most one call is running.
C30_ShutdownOrder ==
  /\ \A i, j \in DOMAIN Components :
       (i < j /\ app.state[j] # "up") => app.state[i] = "closed"
  /\ Cardinality({i \in DOMAIN Components : app.state[i] = "closing"}) <= 1
  /\ app.pc = "exited" => \A i \in DOMAIN Components : app.state[i] = "closed"

\* C30 witness: main has exited after a shutdown in which the server's
\* Shutdown timed out and the producer's Close returned an error.
C30_Witness ==
  /\ app.pc = "exited"
  /\ app.forced
  /\ 3 \in app.errs
  /\ \A i \in DOMAIN Components : app.state[i] = "closed"

\* C31 (as stated): a GetKPIs call whose normalized filter gives the cache key
\* of an earlier GetKPIs call that returned a result less than the cache TTL
\* before returns that cached result, with the summary values of such an
\* earlier call, and issues no database query.
C31_SecondCallServedFromCache ==
  \A p \in Workers :
    (kpi[p].pc = "done" /\ kpi[p].earlier # {}) =>
      /\ ~kpi[p].err
      /\ kpi[p].queries = 0
      /\ Summary(kpi[p].res) \in {e.summary : e \in kpi[p].earlier}

\* C31 (amended): when an earlier GetKPIs call stored its result under the
\* same cache key less than the cache TTL before and the later call's read of
\* the cache does not fail, the later call issues no database query and
\* returns the summary values that such an earlier call stored.
C31_ServedFromCacheWhenStoredAndRead ==
  \A p \in Workers :
    (/\ kpi[p].pc = "done"
     /\ ~kpi[p].readErr
     /\ \E e \in kpi[p].earlier : e.wrote) =>
      /\ ~kpi[p].err
      /\ kpi[p].queries = 0
      /\ Summary(kpi[p].res) \in {e.summary : e \in {x \in kpi[p].earlier : x.wrote}}

\* C31 witness: a call answered from the cache that an earlier call filled,
\* after an order was delivered inside the interval, so that the database
\* would now give other summary values than the ones returned.
C31_Witness ==
  \E p \in Workers :
    /\ kpi[p].pc = "done" /\ kpi[p].queries = 0 /\ ~kpi[p].err
    /\ \E e \in kpi[p].earlier : e.wrote
    /\ kpi[p].res.GroupBy = "none"
    /\ Summary(kpi[p].res) # fetchKPISummary([From |-> kpi[p].res.From, To |-> kpi[p].res.To])

\* C32: Geocode with a non-empty address never returns an error: whether the
\* cache lookup missed or failed, the external provider failed in any way,
\* or the cache write failed, the call returns coordinates, and they are the
\* offline hash-derived ones whenever the external provider failed.
C32_GeocodeNeverFails ==
  \A p \in Workers :
    (geo[p].pc = "done" /\ geo[p].address # "") =>
      /\ ~geo[p].err
      /\ geo[p].lat \in -9000..9000 /\ geo[p].lon \in -18000..18000
      /\ geo[p].outcome \notin {"", "ok"} =>
           <<geo[p].lat, geo[p].lon>> =
             <<Sum64(geo[p].address).lo - 9000, Sum64(geo[p].address).hi - 18000>>

\* C32 witness: a call whose cache lookup failed, whose external provider
\* failed and whose cache write failed has returned.
C32_Witness ==
  \E p \in Workers :
    /\ geo[p].pc = "done" /\ geo[p].address # ""
    /\ geo[p].readErr /\ geo[p].outcome \notin {"", "ok"} /\ ~geo[p].stored
    /\ ~geo[p].err

\* C33: an AssignOrderToCourier call whose statements the database executes
\* returns not_found exactly when its courier SELECT finds no row; it returns
\* conflict when the courier it finds is not available and when its order
\* UPDATE matches no row (the order is missing or not in status created).
C33_AssignErrorKinds ==
  [][\A p \in Workers :
       (/\ pc[p] \in {"a_lock", "a_order", "a_courier", "a_commit"}
        /\ pc'[p] = "done"
        /\ result'[p].kind # KindInternal) =>
         /\ result'[p].kind = KindNotFound <=>
              (pc[p] = "a_lock" /\ call[p].courier \notin DOMAIN couriers)
         /\ (/\ pc[p] = "a_lock"
             /\ call[p].courier \in DOMAIN couriers
             /\ couriers[call[p].courier].status # "available") =>
              result'[p].kind = KindConflict
         /\ (/\ pc[p] = "a_order"
             /\ \/ call[p].order \notin DOMAIN orders
                \/ orders[call[p].order].status # "created") =>
              result'[p].kind = KindConflict]_vars

\* C33 witness: one assignment has returned not_found for a courier that has
\* no row and another a conflict because its order, which is missing or no
\* longer created, matched no row of the UPDATE.
C33_Witness ==
  \E p, q \in Workers :
    /\ pc[p] = "done" /\ call[p].op = "assign"
    /\ result[p].kind = KindNotFound /\ call[p].courier \notin DOMAIN couriers
    /\ pc[q] = "done" /\ call[q].op = "assign"
    /\ result[q].kind = KindConflict
    /\ result[q].msg = "order not found or already assigned"

\* C34: for every GET /api/orders request the limit passed to the order store
\* lies in 1..100, a requested limit above 100 being passed as 100 and a
\* requested limit below 1 as 1.
C34_LimitClamped ==
  \A p \in ListWorkers :
    list[p].pc = "store" =>
      /\ list[p].limit \in 1..100
      /\ list[p].limitStr \in {"101", "1000"} => list[p].limit = 100
      /\ list[p].limitStr \in {"-1", "0"} => list[p].limit = 1

\* C35: every order whose committed status is accepted, preparing, ready,
\* in_delivery or delivered has a courier (courier_id is not NULL), whatever
\* AssignOrderToCourier and UpdateOrderStatus calls have run.
C35_ActiveOrderHasCourier ==
  \A o \in DOMAIN orders :
    orders[o].status \in {"accepted", "preparing", "ready", "in_delivery", "delivered"} =>
      orders[o].courier_id # NilCourier

\* C36: once an order's committed status is delivered or cancelled, no step
\* of an UpdateOrderStatus or AssignOrderToCourier call changes its status,
\* its courier_id or its delivered_at.
C36_TerminalOrderFrozen ==
  [][\A o \in DOMAIN orders :
       orders[o].status \in {"delivered", "cancelled"} =>
         /\ orders'[o].status = orders[o].status
         /\ orders'[o].courier_id = orders[o].courier_id
         /\ orders'[o].delivered_at = orders[o].delivered_at]_vars

\* C37: a GET /api/orders/{id} that begins after a PUT /api/orders/{id}/status
\* for the order has been answered 200 returns the order with the status that
\* PUT set, also when another GET for the order was being served while the
\* update ran: the cache holds no copy from before the update.
C37_LaterGetSeesUpdate ==
  \A p \in GetWorkers :
    (/\ http[p].op = "get" /\ http[p].pc = "done" /\ http[p].code = 200
     /\ http[p].acked # "") =>
      http[p].status = http[p].acked

\* C38: the CreateOrder (with a promo code), UpdateOrderStatus, CreateReview
\* and AssignOrderToCourier transactions never deadlock on the order,
\* courier and promo row locks: at no time is there a set of transactions
\* each waiting for a row lock another of the set holds
C38_NoDeadlock == \A S \in SUBSET Procs : ~Deadlocked(S)

\* C39: the rate-limit counters of distinct client identifiers are
\* independent: the count an Allow call obtains for its client identifier is
\* never larger than the number of Allow calls made with that identifier,
\* whatever the calls made with other identifiers
C39_CountsOwnClientOnly ==
  \A p \in Procs :
    (rl[p].pc \in {"expire", "ttl", "done"} /\ ~rl[p].err)
      => rl[p].count <= rlclient.asked[rlclient.who[p]]

\* C40: during shutdown no request handler that is still in flight uses the
\* producer, the key/value client or the database after main has closed it,
\* the case of Shutdown returning on its expired deadline included
C40_NoUseAfterClose ==
  \A i \in HandlerComponents : <<i, "closed">> \notin app.used

====
